---- MODULE Spec2Model ----
\* Quiz-integrity core of the Flashcards service: the signed attempt token
\* (utils/security.py), the replay store used_tokens and the grading handler
\* check_answer (routes/main.py, models/supabase_adapter.py).
\*
\* Text is modelled as sequences of character codes, so that formatting,
\* base64 encoding, decoding and splitting are computed, not assumed.
EXTENDS Integers, Sequences, FiniteSets, Bags, TLC

VARIABLES
    \* ---- token service under test (SpecToken) ----
    tk_pc,        \* "start" | "issued" | "forged" | "verified"
    tk_q,         \* question id the token is issued for
    tk_u,         \* user id the token is issued for
    tk_t,         \* int(time.time()) at issuance
    tk_token,     \* the issued token
    tk_sub,       \* the token submitted for verification
    tk_kind,      \* how tk_sub was derived from tk_token
    tk_by,        \* the user id supplied to verify_signed_token
    tk_res,       \* result of verify_signed_token(tk_sub, tk_by)
    tk_resp,      \* response of check_answer's token gate for tk_sub
    tk_now,       \* int(time.time()) when the token is verified
    tk_restarted, \* the server process was restarted after the token was issued
    \* ---- grading service (Spec) ----
    issued,       \* tokens dealt by get_question
    used_tokens,  \* table used_tokens: a bag of <<user_id, token>> rows
    user_stats,   \* table user_stats: one row per user_id
    module_stats, \* table module_stats: one row per <<user_id, module_id>>
    req,          \* the check_answer requests in flight and answered
    failures,     \* store calls that have failed so far
    \* ---- duplicate detector (SpecDup) ----
    dd_pc,           \* "idle" | "returned"
    dd_similarities, \* similarity of the query to each question of the module, in tenths
    dd_call,         \* the call or request being served
    dd_resp,         \* what it returned
    \* ---- distractor selection of get_question (SpecDeal) ----
    dl_pc,              \* "idle" | "dealt"
    questions,          \* table questions with each row's taxonomy, in the order the store returns rows
    manual_distractors, \* table manual_distractors, ordered by created_at
    dl_call,            \* the get_question request
    dl_resp,            \* its response
    \* ---- distractor scoring (SpecScore) ----
    sc_pc,          \* "idle" | "scored"
    sc_current,     \* topics, subtopics and tags of the target question
    sc_distractor,  \* topics, subtopics and tags of the candidate
    sc_by,          \* which handler scored: "main" | "legacy"
    sc_score,       \* the score it computed
    \* ---- term vectorizer (SpecTerms) ----
    tv_pc,      \* "idle" | "done"
    tv_words,   \* the words the text is written with
    tv_seps,    \* what follows each word in the text
    tv_text,    \* the question text
    tv_terms,   \* the processed document: the terms counted in the term vector
    \* ---- the other writers of the statistics tables (SpecStats) ----
    uus,        \* the update_user_stats call: position, arguments and the row it read
    goc,        \* the get_or_create_user_stats call: position and argument
    \* ---- ingest_flashcards (SpecIngest) ----
    ig_pc,          \* "idle" | "entry" | "insert" | "distractors" | "accept" | "responded"
    ig_batch,       \* the flashcards of the payload
    ig_index,       \* index of the entry being processed (from 1)
    ig_k,           \* position in the entry's distractor list (from 1)
    ig_flashcards,  \* table submitted_flashcards: the entries that have a row
    ig_distractors, \* table submitted_distractors: <<entry, position>> of each row
    ig_results,     \* results: the indexes under accepted, duplicates and errors
    ig_failures,    \* store calls of the request that have failed
    ig_status       \* status code of the response, 0 before it

tkVars == <<tk_pc, tk_q, tk_u, tk_t, tk_token, tk_sub, tk_kind, tk_by, tk_res, tk_resp,
            tk_now, tk_restarted>>
svcVars == <<issued, used_tokens, user_stats, module_stats, req, failures>>
ddVars == <<dd_pc, dd_similarities, dd_call, dd_resp>>
dlVars == <<dl_pc, questions, manual_distractors, dl_call, dl_resp>>
scVars == <<sc_pc, sc_current, sc_distractor, sc_by, sc_score>>
tvVars == <<tv_pc, tv_words, tv_seps, tv_text, tv_terms>>
stVars == <<uus, goc>>
igVars == <<ig_pc, ig_batch, ig_index, ig_k, ig_flashcards, ig_distractors, ig_results,
            ig_failures, ig_status>>
lateVars == <<stVars, igVars>>
otherVars == <<scVars, tvVars, lateVars>>
corpusVars == <<ddVars, dlVars, otherVars>>
vars == <<tk_pc, tk_q, tk_u, tk_t, tk_token, tk_sub, tk_kind, tk_by, tk_res, tk_resp,
          tk_now, tk_restarted,
          issued, used_tokens, user_stats, module_stats, req, failures,
          dd_pc, dd_similarities, dd_call, dd_resp,
          dl_pc, questions, manual_distractors, dl_call, dl_resp,
          sc_pc, sc_current, sc_distractor, sc_by, sc_score,
          tv_pc, tv_words, tv_seps, tv_text, tv_terms,
          uus, goc,
          ig_pc, ig_batch, ig_index, ig_k, ig_flashcards, ig_distractors, ig_results,
          ig_failures, ig_status>>

\* ---------------------------------------------------------------------
\* Bounds of the model
\* ---------------------------------------------------------------------
MaxUserId == 12        \* user ids are drawn from a few values up to this one
MaxTime == 11          \* issuance times are drawn from a few values up to this one
NumReq == 2            \* check_answer requests
MaxDeals == 2          \* tokens dealt by get_question
MaxFailures == 1       \* store calls that fail

\* ---------------------------------------------------------------------
\* Characters
\* ---------------------------------------------------------------------
Colon == 58            \* ":"  the payload delimiter
PadChar == 61          \* "="  base64 padding
Bang == 33             \* "!"  a character outside the base64 alphabet
None == "None"

Digit(d) == 48 + d
HexDigit(d) == IF d < 10 THEN 48 + d ELSE 97 + (d - 10)

\* str(n) for a non-negative int
RECURSIVE IntToStr(_)
IntToStr(n) == IF n < 10 THEN <<Digit(n)>> ELSE IntToStr(n \div 10) \o <<Digit(n % 10)>>

\* s.split(":")
RECURSIVE Split(_, _)
Split(s, cur) ==
    IF Len(s) = 0 THEN <<cur>>
    ELSE IF Head(s) = Colon THEN <<cur>> \o Split(Tail(s), <<>>)
    ELSE Split(Tail(s), Append(cur, Head(s)))

\* ---------------------------------------------------------------------
\* base64.urlsafe_b64encode / base64.urlsafe_b64decode
\* ---------------------------------------------------------------------
\* the URL-safe alphabet: A-Z a-z 0-9 - _
B64Alphabet(v) ==
    IF v < 26 THEN 65 + v
    ELSE IF v < 52 THEN 97 + (v - 26)
    ELSE IF v < 62 THEN 48 + (v - 52)
    ELSE IF v = 62 THEN 45 ELSE 95

\* decoding table after urlsafe_b64decode's translation of "-_" to "+/":
\* "+" and "/" stay valid; 64 marks a character outside the alphabet
B64Value(c) ==
    IF c \in 65..90 THEN c - 65
    ELSE IF c \in 97..122 THEN c - 97 + 26
    ELSE IF c \in 48..57 THEN c - 48 + 52
    ELSE IF c \in {45, 43} THEN 62
    ELSE IF c \in {95, 47} THEN 63
    ELSE 64

RECURSIVE B64Encode(_)
B64Encode(bs) ==
    IF Len(bs) = 0 THEN <<>>
    ELSE IF Len(bs) = 1 THEN
        << B64Alphabet(bs[1] \div 4), B64Alphabet((bs[1] % 4) * 16), PadChar, PadChar >>
    ELSE IF Len(bs) = 2 THEN
        << B64Alphabet(bs[1] \div 4),
           B64Alphabet((bs[1] % 4) * 16 + (bs[2] \div 16)),
           B64Alphabet((bs[2] % 16) * 4), PadChar >>
    ELSE
        << B64Alphabet(bs[1] \div 4),
           B64Alphabet((bs[1] % 4) * 16 + (bs[2] \div 16)),
           B64Alphabet((bs[2] % 16) * 4 + (bs[3] \div 64)),
           B64Alphabet(bs[3] % 64) >> \o B64Encode(SubSeq(bs, 4, Len(bs)))

\* The non-strict decoder behind base64.b64decode: characters outside the
\* alphabet are skipped, a complete pad sequence ends the parse, the bits
\* left over in the last data character are dropped, and a quantum left
\* open at the end of the input is an error (binascii.Error).
RECURSIVE A2B(_, _, _, _, _, _)
A2B(s, i, quad, left, pads, out) ==
    IF i > Len(s) THEN
        IF quad # 0 THEN [ok |-> FALSE, data |-> <<>>] ELSE [ok |-> TRUE, data |-> out]
    ELSE IF s[i] = PadChar THEN
        IF quad >= 2 /\ quad + pads + 1 >= 4 THEN [ok |-> TRUE, data |-> out]
        ELSE A2B(s, i + 1, quad, left, IF quad >= 2 THEN pads + 1 ELSE pads, out)
    ELSE IF B64Value(s[i]) = 64 THEN A2B(s, i + 1, quad, left, pads, out)
    ELSE LET v == B64Value(s[i]) IN
        CASE quad = 0 -> A2B(s, i + 1, 1, v, 0, out)
          [] quad = 1 -> A2B(s, i + 1, 2, v % 16, 0, Append(out, left * 4 + (v \div 16)))
          [] quad = 2 -> A2B(s, i + 1, 3, v % 4, 0, Append(out, left * 16 + (v \div 4)))
          [] quad = 3 -> A2B(s, i + 1, 0, 0, 0, Append(out, left * 64 + v))

B64Decode(s) == A2B(s, 1, 0, 0, 0, <<>>)

\* bytes.decode(): a byte outside ASCII is taken as undecodable text
Utf8Ok(bs) == \A k \in 1..Len(bs) : bs[k] < 128

\* ---------------------------------------------------------------------
\* hmac.new(key, payload, sha256).hexdigest(), scaled down to one byte
\* ---------------------------------------------------------------------
SecretTokenKey == 7
TokenExpirySeconds == 600

RECURSIVE Digest(_, _)
Digest(h, msg) == IF Len(msg) = 0 THEN h ELSE Digest((h * 31 + Head(msg)) % 256, Tail(msg))

HmacHex(key, msg) == LET h == Digest(key, msg) IN << HexDigit(h \div 16), HexDigit(h % 16) >>

\* hmac.compare_digest on two str values
CompareDigest(a, b) == a = b

\* ---------------------------------------------------------------------
\* generate_signed_token / verify_signed_token
\* ---------------------------------------------------------------------
Payload(question_id, user_str, ts_str) ==
    question_id \o <<Colon>> \o user_str \o <<Colon>> \o ts_str

\* variant: the signature leaves the timestamp out of the signed payload
generate_signed_token_unsigned_time(question_id, user_id, now) ==
    LET payload == Payload(question_id, IntToStr(user_id), IntToStr(now))
        signature == HmacHex(SecretTokenKey, question_id \o <<Colon>> \o IntToStr(user_id))
    IN B64Encode(payload \o <<Colon>> \o signature)

generate_signed_token(question_id, user_id, now) ==
    LET payload == Payload(question_id, IntToStr(user_id), IntToStr(now))
        signature == HmacHex(SecretTokenKey, payload)
    IN B64Encode(payload \o <<Colon>> \o signature)

\* variant: the embedded user is not compared with the caller
UserMatches_any(user_id, token_user_id) == TRUE

\* the user check of verify_signed_token (line 29)
UserMatches(user_id, token_user_id) == IntToStr(user_id) = token_user_id

\* int(s) for a string of decimal digits
RECURSIVE StrToInt(_)
StrToInt(s) == IF Len(s) = 0 THEN 0 ELSE 10 * StrToInt(SubSeq(s, 1, Len(s) - 1)) + (s[Len(s)] - 48)

\* variant: the expiry check of lines 35-37 is active
VerifyBody_expiring(token, user_id) ==
    LET dec == B64Decode(token) IN
    IF ~dec.ok \/ ~Utf8Ok(dec.data) THEN [question_id |-> None, valid |-> FALSE, raised |-> TRUE]
    ELSE LET parts == Split(dec.data, <<>>) IN
        IF Len(parts) # 4 THEN [question_id |-> None, valid |-> FALSE, raised |-> FALSE]
        ELSE IF ~UserMatches(user_id, parts[2]) THEN [question_id |-> None, valid |-> FALSE, raised |-> FALSE]
        ELSE IF ~CompareDigest(parts[4], HmacHex(SecretTokenKey, Payload(parts[1], parts[2], parts[3])))
             THEN [question_id |-> None, valid |-> FALSE, raised |-> FALSE]
        ELSE IF tk_now - StrToInt(parts[3]) > TokenExpirySeconds
             THEN [question_id |-> None, valid |-> FALSE, raised |-> FALSE]
        ELSE [question_id |-> parts[1], valid |-> TRUE, raised |-> FALSE]

\* the body of the try block; raised = TRUE stands for an exception
VerifyBody(token, user_id) ==
    LET dec == B64Decode(token) IN
    IF ~dec.ok \/ ~Utf8Ok(dec.data) THEN [question_id |-> None, valid |-> FALSE, raised |-> TRUE]
    ELSE LET parts == Split(dec.data, <<>>) IN
        IF Len(parts) # 4 THEN [question_id |-> None, valid |-> FALSE, raised |-> FALSE]
        ELSE IF ~UserMatches(user_id, parts[2]) THEN [question_id |-> None, valid |-> FALSE, raised |-> FALSE]
        ELSE IF ~CompareDigest(parts[4], HmacHex(SecretTokenKey, Payload(parts[1], parts[2], parts[3])))
             THEN [question_id |-> None, valid |-> FALSE, raised |-> FALSE]
        ELSE [question_id |-> parts[1], valid |-> TRUE, raised |-> FALSE]

\* variant: no except clause around the body
verify_signed_token_no_except(token, user_id) == VerifyBody(token, user_id)

\* try: ... except Exception: return None, False
verify_signed_token(token, user_id) ==
    LET r == VerifyBody(token, user_id) IN
    IF r.raised THEN [question_id |-> None, valid |-> FALSE, raised |-> FALSE] ELSE r

\* ---------------------------------------------------------------------
\* check_answer, lines 416-423: the replay lookup, then the token check
\* ---------------------------------------------------------------------
RespAlreadyUsed == "Token already used for a correct answer"
RespInvalid == "Invalid or expired token"
RespProceed == "proceed"

\* the number of rows of a bag of rows that satisfy a condition
RECURSIVE SumCopies(_, _)
SumCopies(bag, rows) ==
    IF rows = {} THEN 0
    ELSE LET x == CHOOSE y \in rows : TRUE IN CopiesIn(x, bag) + SumCopies(bag, rows \ {x})

\* variant: the replay lookup filters on the token only
UsedTokenRows_any_user(store, user_id, token) ==
    SumCopies(store, { row \in BagToSet(store) : row[2] = token })

\* select * from used_tokens where user_id = ... and token = ...
UsedTokenRows(store, user_id, token) == CopiesIn(<<user_id, token>>, store)

\* the tokens get_question can deal in Spec, and verify_signed_token
\* tabulated on them (the same function, evaluated once)
QuestionIds == { <<97>>, <<98, 49>>, <<99>> }   \* "a", "b1", "c" (ids are hex strings)
SessionUsers == { 1, MaxUserId }
NoToken == <<>>               \* the request carries no token
\* the users get_question deals to; requests of different users share no
\* row of the store, so the other session user only submits tokens
Dealers == { 1 }
DealtTokens == { generate_signed_token(q, u, MaxTime) : q \in QuestionIds, u \in Dealers }
VerifyTable ==
    [u \in SessionUsers |-> [tok \in DealtTokens \cup {NoToken} |-> verify_signed_token(tok, u)]]

\* variant: a token is accepted only by the process that issued it
Verify_in_memory(token, user_id) ==
    IF tk_restarted THEN [question_id |-> None, valid |-> FALSE, raised |-> FALSE]
    ELSE verify_signed_token(token, user_id)

Verify(token, user_id) ==
    IF user_id \in SessionUsers /\ token \in DealtTokens \cup {NoToken}
    THEN VerifyTable[user_id][token]
    ELSE verify_signed_token(token, user_id)

\* variant: the gate verifies the token and does not look it up
TokenGate_no_lookup(store, user_id, token) ==
    IF ~Verify(token, user_id).valid THEN RespInvalid ELSE RespProceed

TokenGate(store, user_id, token) ==
    IF UsedTokenRows(store, user_id, token) > 0 THEN RespAlreadyUsed
    ELSE IF ~Verify(token, user_id).valid THEN RespInvalid
    ELSE RespProceed

\* ---------------------------------------------------------------------
\* Duplicate detector: calls and responses
\* ---------------------------------------------------------------------
NoHeader == [present |-> FALSE, text |-> <<>>]
NoCall ==
    [entry |-> "none", limit |-> 0, threshold |-> 0, header |-> NoHeader,
     authorized |-> FALSE, short |-> FALSE, module_found |-> FALSE, payload |-> FALSE,
     pending |-> FALSE]
NoResp ==
    [status |-> 0, error |-> "none", duplicates |-> <<>>, scored |-> FALSE, inserted |-> FALSE]

\* no duplicate check has been asked for
DdIdle ==
    /\ dd_pc = "idle"
    /\ dd_similarities = <<>>
    /\ dd_call = NoCall
    /\ dd_resp = NoResp

\* ---------------------------------------------------------------------
\* Distractor selection: rows, requests and responses
\* ---------------------------------------------------------------------
Row(id, module_id, answer, topics, subtopics, tags) ==
    [id |-> id, module_id |-> module_id, answer |-> answer,
     topics |-> topics, subtopics |-> subtopics, tags |-> tags]
NoRow == Row(0, 0, <<>>, {}, {}, {})
NoDealCall == [path |-> "none", module |-> 0, question_id |-> 0]
NoDeal == [status |-> "none", error |-> "none", question |-> NoRow, answers |-> EmptyBag]

\* no question has been asked for
DlIdle ==
    /\ dl_pc = "idle"
    /\ questions = <<>>
    /\ manual_distractors = <<>>
    /\ dl_call = NoDealCall
    /\ dl_resp = NoDeal

\* ---------------------------------------------------------------------
\* Distractor scoring: taxonomy memberships
\* ---------------------------------------------------------------------
Taxonomy(topics, subtopics, tags) == [topics |-> topics, subtopics |-> subtopics, tags |-> tags]
NoTaxonomy == Taxonomy({}, {}, {})

\* nothing has been scored
ScIdle ==
    /\ sc_pc = "idle"
    /\ sc_current = NoTaxonomy
    /\ sc_distractor = NoTaxonomy
    /\ sc_by = "none"
    /\ sc_score = 0

\* no text has been vectorized
TvIdle ==
    /\ tv_pc = "idle"
    /\ tv_words = <<>>
    /\ tv_seps = <<>>
    /\ tv_text = <<>>
    /\ tv_terms = <<>>

\* neither update_user_stats nor get_or_create_user_stats is called
NoStatsCall ==
    [pc |-> "idle", user |-> 0, is_correct |-> FALSE,
     mrow |-> [present |-> FALSE, number_answered |-> 0, number_correct |-> 0, current_streak |-> 0],
     urow |-> [present |-> FALSE, correct_answers |-> 0, total_answers |-> 0, current_streak |-> 0]]
StIdle == uus = NoStatsCall /\ goc = NoStatsCall

\* no batch is being ingested
NoResults == [accepted |-> {}, duplicates |-> {}, errors |-> {}]
IgIdle ==
    /\ ig_pc = "idle"
    /\ ig_batch = <<>>
    /\ ig_index = 0
    /\ ig_k = 0
    /\ ig_flashcards = {}
    /\ ig_distractors = {}
    /\ ig_results = NoResults
    /\ ig_failures = 0
    /\ ig_status = 0

LateIdle == StIdle /\ IgIdle
OtherIdle == ScIdle /\ TvIdle /\ LateIdle

\* ---------------------------------------------------------------------
\* SpecToken: the token service applied to bounded inputs
\* ---------------------------------------------------------------------
UserIds == { 1, 7, MaxUserId }
Times == { 9, MaxTime }

\* characters an attacker writes into a token
UrlSafeChars == { B64Alphabet(v) : v \in 0..63 }
TamperChars == UrlSafeChars \cup { PadChar, Bang }
FieldChars == { HexDigit(d) : d \in 0..15 } \cup { Colon, 71 }

SigLen == 2
\* positions of the token whose bits carry a byte of the signature field
SigSegment(token) ==
    LET n == Len(B64Decode(token).data) IN
    { p \in 1..Len(token) :
        /\ token[p] # PadChar
        /\ 6 * p - 1 >= 8 * (n - SigLen)
        /\ 6 * (p - 1) <= 8 * n - 1 }

ReplaceAt(s, p, c) == [s EXCEPT ![p] = c]

TkNoResult == [question_id |-> None, valid |-> FALSE, raised |-> FALSE]

TkInit ==
    /\ tk_pc = "start"
    /\ tk_q \in QuestionIds
    /\ tk_u \in UserIds
    /\ tk_t \in Times
    /\ tk_token = <<>>
    /\ tk_sub = <<>>
    /\ tk_kind = "none"
    /\ tk_by = 0
    /\ tk_res = TkNoResult
    /\ tk_resp = "none"
    /\ tk_now = tk_t
    /\ tk_restarted = FALSE

\* get_question: token = generate_signed_token(question['id'], session['user_id'])
TkIssue ==
    /\ tk_pc = "start"
    /\ tk_token' = generate_signed_token(tk_q, tk_u, tk_t)
    /\ tk_sub' = tk_token'
    /\ tk_kind' = "issued"
    /\ tk_pc' = "issued"
    /\ UNCHANGED <<tk_q, tk_u, tk_t, tk_by, tk_res, tk_resp, tk_now, tk_restarted>>
    /\ UNCHANGED <<svcVars, corpusVars>>

TkForge(sub, kind) ==
    /\ tk_pc = "issued"
    /\ tk_sub' = sub
    /\ tk_kind' = kind
    /\ tk_pc' = "forged"
    /\ UNCHANGED <<tk_q, tk_u, tk_t, tk_token, tk_by, tk_res, tk_resp, tk_now, tk_restarted>>
    /\ UNCHANGED <<svcVars, corpusVars>>

\* the client changes one character of the token inside its signature segment
TkTamperTokenChar ==
    /\ tk_pc = "issued"
    /\ \E p \in SigSegment(tk_token) : \E c \in TamperChars \ { tk_token[p] } :
        TkForge(ReplaceAt(tk_token, p, c), "sigchar")

\* the client decodes the token, changes one character of the signature
\* field and encodes it again
TkTamperSigField ==
    /\ tk_pc = "issued"
    /\ LET raw == B64Decode(tk_token).data IN
       \E k \in (Len(raw) - SigLen + 1)..Len(raw) : \E c \in FieldChars \ { raw[k] } :
        TkForge(B64Encode(ReplaceAt(raw, k, c)), "sigfield")

\* the client cuts the last character off the token
TkTruncate ==
    /\ tk_pc = "issued"
    /\ TkForge(SubSeq(tk_token, 1, Len(tk_token) - 1), "truncated")

\* the client encodes a text with one field less or one field more
TkFieldCount ==
    /\ tk_pc = "issued"
    /\ LET raw == B64Decode(tk_token).data
           parts == Split(raw, <<>>)
       IN \/ TkForge(B64Encode(parts[1] \o <<Colon>> \o parts[2] \o <<Colon>> \o parts[4]), "fields")
          \/ TkForge(B64Encode(raw \o <<Colon>> \o parts[4]), "fields")

\* the client encodes bytes that are not text
TkBinary ==
    /\ tk_pc = "issued"
    /\ LET raw == B64Decode(tk_token).data IN
       TkForge(B64Encode(ReplaceAt(raw, 1, 200)), "binary")

\* the server process is restarted between the deal and the submission:
\* what the process held in memory is gone, the client keeps its token
TkRestart ==
    /\ tk_pc \in {"issued", "forged"}
    /\ ~tk_restarted
    /\ tk_restarted' = TRUE
    /\ UNCHANGED <<tk_pc, tk_q, tk_u, tk_t, tk_token, tk_sub, tk_kind, tk_by, tk_res, tk_resp, tk_now>>
    /\ UNCHANGED <<svcVars, corpusVars>>

\* the client holds the token until TOKEN_EXPIRY_SECONDS have passed
TkWait ==
    /\ tk_pc \in {"issued", "forged"}
    /\ tk_now = tk_t
    /\ tk_now' = tk_t + TokenExpirySeconds + 1
    /\ UNCHANGED <<tk_pc, tk_q, tk_u, tk_t, tk_token, tk_sub, tk_kind, tk_by, tk_res, tk_resp,
                   tk_restarted>>
    /\ UNCHANGED <<svcVars, corpusVars>>

\* check_answer's token gate on a store that holds no row for the token
TkVerify ==
    /\ tk_pc \in {"issued", "forged"}
    /\ \E v \in UserIds :
        /\ tk_by' = v
        /\ tk_res' = Verify(tk_sub, v)
        /\ tk_resp' = TokenGate(EmptyBag, v, tk_sub)
    /\ tk_pc' = "verified"
    /\ UNCHANGED <<tk_q, tk_u, tk_t, tk_token, tk_sub, tk_kind, tk_now, tk_restarted>>
    /\ UNCHANGED <<svcVars, corpusVars>>

TkNext ==
    \/ TkIssue
    \/ TkTamperTokenChar
    \/ TkTamperSigField
    \/ TkTruncate
    \/ TkFieldCount
    \/ TkBinary
    \/ TkRestart
    \/ TkWait
    \/ TkVerify


\* ---------------------------------------------------------------------
\* Spec: check_answer requests running concurrently against the store
\* ---------------------------------------------------------------------

Modules == { 1 }

\* table questions: answer and module_id by id; the row of question "c" is
\* gone by the time its token is submitted
StoredQuestions == { <<97>>, <<98, 49>> }
QuestionAnswer(q) == IF q = <<97>> THEN <<120>> ELSE <<121>>      \* "x", "y"
QuestionModule(q) == 1
Answers == { <<120>>, <<121>> }

RespNone == "none"
RespMissing == "Missing token or answer"
RespNotFound == "Question not found"
RespCorrect == "correct: true"
RespIncorrect == "correct: false"
RespStoreError == "error: str(e)"
RespServerError == "500 Internal Server Error"

NoUserRow == [present |-> FALSE, correct_answers |-> 0, total_answers |-> 0, current_streak |-> 0]
NoModuleRow == [present |-> FALSE, number_answered |-> 0, number_correct |-> 0, current_streak |-> 0]

\* a request: the session user, the submitted token, the handler's position
\* and locals, and the response once it is answered.  req is the bag of the
\* requests received so far (requests are anonymous).
\* overlap is a ghost field: some other request was in flight while this one was.
NewReq(u, tok, ans) ==
    [pc |-> "done", user |-> u, token |-> tok, answer |-> ans,
     question_id |-> <<>>, is_correct |-> FALSE,
     stats |-> NoUserRow, mstats |-> NoModuleRow, conflict |-> FALSE,
     path |-> "none", resp |-> RespNone, overlap |-> FALSE]

InFlight(e) == e.pc # "done"

\* req with the overlap mark set on the requests in flight
Overlapped(e) == IF InFlight(e) THEN [e EXCEPT !.overlap = TRUE] ELSE e
MarkOverlap ==
    LET S == BagToSet(req) IN
    [x \in { Overlapped(e) : e \in S } |-> SumCopies(req, { e \in S : Overlapped(e) = x })]

\* variant: a comparison looser than equality of the texts
Grade_same_length(submitted_answer, correct_answer) ==
    Len(submitted_answer) = Len(correct_answer)

\* line 433: is_correct = submitted_answer == correct_answer
Grade(submitted_answer, correct_answer) == submitted_answer = correct_answer

\* variant: the token is recorded whatever the answer
ConsumesToken_always(is_correct) == TRUE

\* adapter line 491 / route line 509: the token is recorded if is_correct
ConsumesToken(is_correct) == is_correct

Received == BagToSet(req)
Replace(e, e2) == req' = (req (-) SetToBag({e})) (+) SetToBag({e2})

SvcInit ==
    /\ issued = {}
    /\ used_tokens = EmptyBag
    /\ user_stats = [u \in SessionUsers |-> NoUserRow]
    /\ module_stats = [k \in SessionUsers \X Modules |-> NoModuleRow]
    /\ req = EmptyBag
    /\ failures = 0

Init ==
    /\ TkInit
    /\ tk_q = <<97>> /\ tk_u = 1 /\ tk_t = MaxTime
    /\ SvcInit
    /\ DdIdle
    /\ DlIdle
    /\ OtherIdle

\* a store call may fail (network, timeout) while the failure budget lasts
MayFail == failures < MaxFailures

\* the request is answered; its locals are gone
Finish(e, response) ==
    [NewReq(e.user, e.token, e.answer) EXCEPT !.is_correct = e.is_correct, !.resp = response,
                                    !.overlap = e.overlap]

\* variant: every deal embeds a value of its own (no two deals share a second)
Issue_fresh_each_deal(u, q) ==
    /\ Cardinality(issued) < MaxDeals
    /\ issued' = issued \cup { generate_signed_token(q, u, MaxTime - Cardinality(issued)) }
    /\ issued' # issued
    /\ UNCHANGED <<used_tokens, user_stats, module_stats, req, failures>>
    /\ UNCHANGED <<tkVars, corpusVars>>

\* get_question, line 378: a token for a question dealt to the session user
Issue(u, q) ==
    /\ Cardinality(issued) < MaxDeals
    /\ issued' = issued \cup { generate_signed_token(q, u, MaxTime) }
    /\ issued' # issued
    /\ UNCHANGED <<used_tokens, user_stats, module_stats, req, failures>>
    /\ UNCHANGED <<tkVars, corpusVars>>

\* check_answer, lines 404-433: argument check, replay lookup, token check,
\* read of the question and grading of the submitted answer
CheckToken ==
    /\ BagCardinality(req) < NumReq
    /\ \E u \in SessionUsers : \E tok \in issued \cup {NoToken} :
        LET gate == TokenGate(used_tokens, u, tok)
            qid == Verify(tok, u).question_id
        IN \E ans \in Answers :
            LET new == NewReq(u, tok, ans) IN
            \* line 410: a request without a token (or without an answer) is
            \* answered before any store call
            IF tok = NoToken THEN
                /\ req' = req (+) SetToBag({[new EXCEPT !.resp = RespMissing]})
                /\ UNCHANGED failures
            ELSE
                \/ /\ gate # RespProceed
                   /\ req' = req (+) SetToBag({[new EXCEPT !.resp = gate]})
                   /\ UNCHANGED failures
                \/ /\ gate = RespProceed
                   /\ qid \notin StoredQuestions
                   /\ req' = req (+) SetToBag({[new EXCEPT !.resp = RespNotFound]})
                   /\ UNCHANGED failures
                \/ /\ gate = RespProceed
                   /\ qid \in StoredQuestions
                   /\ req' = MarkOverlap (+) SetToBag({[new EXCEPT !.pc = "read_user", !.path = "adapter",
                                   !.question_id = qid, !.is_correct = Grade(ans, QuestionAnswer(qid)),
                                   !.overlap = (\E e \in Received : InFlight(e))]})
                   /\ UNCHANGED failures
                \* the select of line 417 fails: the exception leaves the handler
                \/ /\ MayFail
                   /\ failures' = failures + 1
                   /\ req' = req (+) SetToBag({[new EXCEPT !.resp = RespServerError]})
                \* the select of line 428 fails: the except branch of line 449 takes over
                \/ /\ MayFail
                   /\ gate = RespProceed
                   /\ qid \in StoredQuestions
                   /\ failures' = failures + 1
                   /\ req' = MarkOverlap (+) SetToBag({[new EXCEPT !.pc = "read_user", !.path = "route",
                                   !.question_id = qid, !.is_correct = Grade(ans, QuestionAnswer(qid)),
                                   !.overlap = (\E e \in Received : InFlight(e))]})
    /\ UNCHANGED <<issued, used_tokens, user_stats, module_stats>>
    /\ UNCHANGED <<tkVars, corpusVars>>

\* how a failed store call ends the request: the adapter turns it into an
\* error result (lines 513-515, 444-445), the except branch lets it escape
FailedCall(e) == IF e.path = "adapter" THEN Finish(e, RespStoreError) ELSE Finish(e, RespServerError)

StoreCallFails(e) ==
    /\ e.pc \in {"read_user", "read_module", "write_module", "insert_token", "write_user"}
    /\ MayFail
    /\ failures' = failures + 1
    /\ Replace(e, FailedCall(e))
    /\ UNCHANGED <<issued, used_tokens, user_stats, module_stats>>
    /\ UNCHANGED <<tkVars, corpusVars>>

\* adapter lines 432-456 / route lines 453-474 and 509-518: read the question
\* row, read the user's stats and compute the new totals (the route computes
\* correct and streak a few lines later, from the same values)
ReadUserStats(e) ==
    /\ e.pc = "read_user"
    /\ LET row == user_stats[e.user]
           right == e.is_correct
           new == [present |-> TRUE,
                   correct_answers |-> row.correct_answers + (IF right THEN 1 ELSE 0),
                   total_answers |-> row.total_answers + 1,
                   current_streak |-> IF right THEN row.current_streak + 1 ELSE 0]
       IN Replace(e, [e EXCEPT !.pc = "read_module", !.stats = new])
    /\ UNCHANGED <<issued, used_tokens, user_stats, module_stats, failures>>
    /\ UNCHANGED <<tkVars, corpusVars>>

\* adapter line 466 / route line 482: read the user's row of the module
ReadModuleStats(e) ==
    /\ e.pc = "read_module"
    /\ Replace(e, [e EXCEPT !.pc = "write_module",
                     !.mstats = module_stats[<<e.user, QuestionModule(e.question_id)>>]])
    /\ UNCHANGED <<issued, used_tokens, user_stats, module_stats, failures>>
    /\ UNCHANGED <<tkVars, corpusVars>>

\* variant: the store has no uniqueness constraint
UniqueViolation_none(rows) == FALSE

\* the uniqueness constraint of the store: an insert whose key is already
\* held by a row is refused
UniqueViolation(rows) == rows > 0

\* adapter lines 468-488 / route lines 484-506: update the row that was
\* read, or insert the first row of the module
WriteModuleStats(e) ==
    /\ e.pc = "write_module"
    /\ LET k == <<e.user, QuestionModule(e.question_id)>>
           m == e.mstats
           right == e.is_correct
           next == [e EXCEPT !.pc = IF ConsumesToken(right) THEN "insert_token" ELSE "write_user",
                             !.mstats = NoModuleRow, !.question_id = <<>>]
       IN
       IF m.present THEN
           /\ module_stats' = [module_stats EXCEPT ![k] =
                 [present |-> TRUE,
                  number_answered |-> m.number_answered + 1,
                  number_correct |-> m.number_correct + (IF right THEN 1 ELSE 0),
                  current_streak |-> IF right THEN m.current_streak + 1 ELSE 0]]
           /\ Replace(e, next)
       ELSE IF UniqueViolation(IF module_stats[k].present THEN 1 ELSE 0) THEN
           /\ Replace(e, FailedCall(e))
           /\ UNCHANGED module_stats
       ELSE
           /\ module_stats' = [module_stats EXCEPT ![k] =
                 [present |-> TRUE,
                  number_answered |-> 1,
                  number_correct |-> IF right THEN 1 ELSE 0,
                  current_streak |-> IF right THEN 1 ELSE 0]]
           /\ Replace(e, next)
    /\ UNCHANGED <<issued, used_tokens, user_stats, failures>>
    /\ UNCHANGED <<tkVars, corpusVars>>

\* adapter lines 491-495 / route lines 513-516: record the token of a
\* correct answer
InsertUsedToken(e) ==
    /\ e.pc = "insert_token"
    /\ IF UniqueViolation(UsedTokenRows(used_tokens, e.user, e.token)) THEN
           /\ Replace(e, [FailedCall(e) EXCEPT !.conflict = TRUE])
           /\ UNCHANGED used_tokens
       ELSE
           /\ used_tokens' = used_tokens (+) SetToBag({<<e.user, e.token>>})
           /\ Replace(e, [e EXCEPT !.pc = "write_user"])
    /\ UNCHANGED <<issued, user_stats, module_stats, failures>>
    /\ UNCHANGED <<tkVars, corpusVars>>

\* adapter lines 498-511 and route lines 444-447 / route lines 521-530:
\* upsert the user's stats and answer the request
WriteUserStats(e) ==
    /\ e.pc = "write_user"
    /\ user_stats' = [user_stats EXCEPT ![e.user] = e.stats]
    /\ Replace(e, Finish(e, IF e.is_correct THEN RespCorrect ELSE RespIncorrect))
    /\ UNCHANGED <<issued, used_tokens, module_stats, failures>>
    /\ UNCHANGED <<tkVars, corpusVars>>

Next ==
    \/ \E u \in Dealers : \E q \in QuestionIds : Issue(u, q)
    \/ CheckToken
    \/ \E e \in Received : ReadUserStats(e)
    \/ \E e \in Received : ReadModuleStats(e)
    \/ \E e \in Received : WriteModuleStats(e)
    \/ \E e \in Received : InsertUsedToken(e)
    \/ \E e \in Received : WriteUserStats(e)
    \/ \E e \in Received : StoreCallFails(e)

Spec == Init /\ [][Next]_vars

\* get_question writes none of the tables of the grading service
IssueFrame == [][issued' # issued => UNCHANGED <<used_tokens, user_stats, module_stats>>]_vars

TokenInit == TkInit /\ SvcInit /\ DdIdle /\ DlIdle /\ OtherIdle

SpecToken == TokenInit /\ [][TkNext]_vars

\* ---------------------------------------------------------------------
\* Properties of the token service (SpecToken)
\* ---------------------------------------------------------------------
TkVerified == tk_pc = "verified"

\* C2: a token verified as issued, by the user it was issued to, yields
\* (question_id, True) with the question id it was issued for
C2_RoundTrip ==
    (TkVerified /\ tk_kind = "issued" /\ tk_by = tk_u)
        => (tk_res.valid /\ tk_res.question_id = tk_q /\ ~tk_res.raised)

C2_Witness ==
    TkVerified /\ tk_kind = "issued" /\ tk_by = tk_u /\ tk_u = MaxUserId /\ tk_res.valid

\* C3: a token issued to one user is not valid when another user presents it
C3_UserBinding ==
    (TkVerified /\ tk_kind = "issued" /\ tk_by # tk_u) => ~tk_res.valid

C3_Witness ==
    TkVerified /\ tk_kind = "issued" /\ tk_by # tk_u /\ tk_res = TkNoResult

\* C4: a token with one character of its signature segment changed is not
\* valid for the token's own user
C4_TamperRejected ==
    (TkVerified /\ tk_kind = "sigchar" /\ tk_by = tk_u) => ~tk_res.valid

\* the same change made on the decoded signature field and encoded again is
\* rejected (background to C4: the canonical encoding is not malleable)
TamperedFieldRejected ==
    (TkVerified /\ tk_kind = "sigfield") => ~tk_res.valid

\* the submitted token is undecodable, has a wrong field count or a wrong
\* signature, or is presented by another user
C10_Rejected ==
    \/ tk_kind \in {"truncated", "binary", "fields", "sigfield"}
    \/ tk_kind = "issued" /\ tk_by # tk_u

\* C10: verify_signed_token does not raise and returns (None, False) for an
\* undecodable token, a wrong field count, a wrong signature and a token of
\* another user, and check_answer answers each with the same error
C10_UniformRejection ==
    (TkVerified /\ C10_Rejected) => (tk_res = TkNoResult /\ tk_resp = RespInvalid)

C10_Witness ==
    TkVerified /\ tk_kind = "truncated" /\ tk_by = tk_u /\ tk_res = TkNoResult /\ tk_resp = RespInvalid

CountReq(S) == SumCopies(req, S)

Accepted(u, t) ==
    CountReq({ e \in Received : e.resp = RespCorrect /\ e.user = u /\ e.token = t })
IssuedTo(u) == Cardinality({ t \in issued : Verify(t, u).valid })
UserCredit(u) == user_stats[u].correct_answers

RECURSIVE ModuleCreditOver(_, _)
ModuleCreditOver(u, ms) ==
    IF ms = {} THEN 0
    ELSE LET m == CHOOSE x \in ms : TRUE
         IN module_stats[<<u, m>>].number_correct + ModuleCreditOver(u, ms \ {m})
ModuleCredit(u) == ModuleCreditOver(u, Modules)

Redeemed(u, t) == CopiesIn(<<u, t>>, used_tokens) > 0

\* C1: however the requests that submit a token interleave, at most one of
\* them is accepted, and the user's correct-answer credit (overall and per
\* module) is at most one per token issued to the user
C1_OneCreditPerToken ==
    \A u \in SessionUsers :
        /\ \A t \in issued : Accepted(u, t) <= 1
        /\ UserCredit(u) <= IssuedTo(u)
        /\ ModuleCredit(u) <= IssuedTo(u)

\* background to C1: what does hold of the responses and of user_stats
AcceptedOnce == \A u \in SessionUsers : \A t \in issued : Accepted(u, t) <= 1
UserCreditBounded == \A u \in SessionUsers : UserCredit(u) <= IssuedTo(u)

C7_IdempotentInsert ==
    \A e \in Received : e.conflict => e.resp \notin {RespStoreError, RespServerError}

\* C8: a request whose insert conflicts is answered as already redeemed
C8_ConflictIsAlreadyUsed ==
    \A e \in Received : e.conflict => e.resp = RespAlreadyUsed

\* the request e is the one received in this step
Arrived(e) ==
    /\ BagCardinality(req') > BagCardinality(req)
    /\ CopiesIn(e, req') > CopiesIn(e, req)
    /\ CopiesIn(e, req') > CopiesIn(e, MarkOverlap)
\* the request got as far as the replay lookup, and the lookup answered
LookedUp(e) == e.resp \notin {RespMissing, RespServerError}

C9_Step ==
    /\ RespAlreadyUsed # RespInvalid
    /\ \A e \in BagToSet(req') :
        /\ (Arrived(e) /\ LookedUp(e)) =>
              ((e.resp = RespAlreadyUsed) <=> (CopiesIn(<<e.user, e.token>>, used_tokens) > 0))
        /\ (CopiesIn(e, req') > CopiesIn(e, req) /\ e.resp = RespAlreadyUsed) => Arrived(e)

\* C9: a request that reaches the replay lookup is rejected as already used
\* exactly if used_tokens holds its (user_id, token) at that moment; no later
\* step produces that rejection, and it differs from the invalid-token one
C9_AlreadyUsedIffRedeemed == [][C9_Step]_vars

C9_Witness ==
    \E e \in Received : e.resp = RespAlreadyUsed /\ Redeemed(e.user, e.token)

\* the requests of user u that were graded and answered
Graded(u) == { e \in Received : e.user = u /\ e.resp \in {RespCorrect, RespIncorrect} }
GradedCorrect(u) == { e \in Graded(u) : e.resp = RespCorrect }

\* every request is answered, none of user u's with an error, and the graded
\* requests of u carry different tokens
QuietFor(u) ==
    /\ \A e \in Received : ~InFlight(e)
    /\ \A e \in Received : e.user = u => e.resp \notin {RespStoreError, RespServerError}
    /\ \A e \in Graded(u) : CountReq({ g \in Graded(u) : g.token = e.token }) = 1

\* C12: once the requests of a user, each with a token of its own, are
\* answered, user_stats and module_stats count every one of them, as after
\* any sequential execution
C12_SerializableStats ==
    \A u \in SessionUsers :
        QuietFor(u) =>
            /\ user_stats[u].total_answers = CountReq(Graded(u))
            /\ user_stats[u].correct_answers = CountReq(GradedCorrect(u))
            /\ (Graded(u) = GradedCorrect(u) => user_stats[u].current_streak = CountReq(Graded(u)))
            /\ \A m \in Modules :
                /\ module_stats[<<u, m>>].number_answered = CountReq(Graded(u))
                /\ module_stats[<<u, m>>].number_correct = CountReq(GradedCorrect(u))


\* the stored answer of the question whose id the token of request e embeds
EmbeddedAnswer(e) == QuestionAnswer(Verify(e.token, e.user).question_id)
Rejections == { RespMissing, RespInvalid, RespAlreadyUsed, RespNotFound }

MaxCorpus == 3           \* questions of the module
DefaultThreshold == 3    \* threshold=0.3
DefaultLimit == 5        \* limit=5
\* cosine similarities the scoring of lines 451-469 can yield (0.0 .. 1.0)
SimValues == { 0, 3, 5, 10 }
SimLists == UNION { [1..n -> SimValues] : n \in 0..MaxCorpus }
Limits == { -1, 0, 1, 2, DefaultLimit }
Thresholds == { -1, 0, DefaultThreshold, 10, 20 }
\* X-Similarity-Threshold: absent, "", "0", "0.3", "1", "1.5", "2", "-0.1", "abc"
HeaderTexts ==
    { <<>>, <<48>>, <<48, 46, 51>>, <<49>>, <<49, 46, 53>>, <<50>>, <<45, 48, 46, 49>>,
      <<97, 98, 99>> }
Headers == { NoHeader } \cup { [present |-> TRUE, text |-> t] : t \in HeaderTexts }

Min(a, b) == IF a <= b THEN a ELSE b

\* float(text) for texts made of a sign, digits and a point followed by at
\* most one digit; anything else raises ValueError (ok = FALSE)
ParseFloat(text) ==
    LET neg == Len(text) > 0 /\ text[1] = 45
        body == IF neg THEN Tail(text) ELSE text
        dots == { i \in 1..Len(body) : body[i] = 46 }
        p == IF dots = {} THEN Len(body) + 1 ELSE CHOOSE i \in dots : TRUE
        whole == SubSeq(body, 1, p - 1)
        frac == SubSeq(body, p + 1, Len(body))
        ok == /\ Cardinality(dots) <= 1
              /\ \A i \in 1..Len(body) : i \notin dots => body[i] \in 48..57
              /\ Len(whole) + Len(frac) > 0
              /\ Len(frac) <= 1
        tenths == 10 * StrToInt(whole) + StrToInt(frac)
    IN [ok |-> ok, value |-> IF ~ok THEN 0 ELSE IF neg THEN 0 - tenths ELSE tenths]

\* api.py:12-32
parse_similarity_threshold(header) ==
    IF ~header.present \/ header.text = <<>>
    THEN [threshold |-> DefaultThreshold, error |-> "none"]
    ELSE LET f == ParseFloat(header.text) IN
         IF ~f.ok THEN [threshold |-> 0, error |-> "must be a valid number"]
         ELSE IF 0 <= f.value /\ f.value <= 10 THEN [threshold |-> f.value, error |-> "none"]
         ELSE [threshold |-> 0, error |-> "must be between 0.0 and 1.0"]

\* line 469: similarities.append((i, similarity))
Similarities(sims) == [i \in 1..Len(sims) |-> [idx |-> i, similarity |-> sims[i]]]

\* variant: of two equal scores the later one is put first
StaysAhead_strict(earlier, later) == earlier.similarity > later.similarity

\* sorted(..., reverse=True) is stable: an earlier pair stays ahead of a
\* later one unless the later one scores higher
StaysAhead(earlier, later) == earlier.similarity >= later.similarity

\* sorted(..., key=score, reverse=True): descending and stable
RECURSIVE InsertDesc(_, _)
InsertDesc(sorted, x) ==
    IF Len(sorted) = 0 THEN <<x>>
    ELSE IF StaysAhead(Head(sorted), x)
         THEN <<Head(sorted)>> \o InsertDesc(Tail(sorted), x)
         ELSE <<x>> \o sorted
RECURSIVE SortedDesc(_)
SortedDesc(seq) ==
    IF Len(seq) = 0 THEN <<>>
    ELSE InsertDesc(SortedDesc(SubSeq(seq, 1, Len(seq) - 1)), seq[Len(seq)])

\* seq[:limit]
SliceTo(seq, limit) ==
    IF limit >= 0 THEN SubSeq(seq, 1, Min(limit, Len(seq)))
    ELSE SubSeq(seq, 1, Len(seq) + limit)

\* variant: the first `limit` questions of the corpus are taken, unsorted
find_semantic_duplicates_unsorted(sims, limit, threshold) ==
    SelectSeq(SliceTo(Similarities(sims), limit), LAMBDA m : m.similarity >= threshold)

\* question.py:386-485, after the scoring
find_semantic_duplicates(sims, limit, threshold) ==
    IF Len(sims) = 0 THEN <<>>
    ELSE LET top_matches == SliceTo(SortedDesc(Similarities(sims)), limit)
         IN SelectSeq(top_matches, LAMBDA m : m.similarity >= threshold)

DdInit ==
    /\ dd_pc = "idle"
    /\ dd_similarities \in SimLists
    /\ dd_call = NoCall
    /\ dd_resp = NoResp

\* a direct call of find_semantic_duplicates
DdFind ==
    /\ dd_pc = "idle"
    /\ \E limit \in Limits : \E threshold \in Thresholds :
        /\ dd_call' = [NoCall EXCEPT !.entry = "find_semantic_duplicates",
                                     !.limit = limit, !.threshold = threshold]
        /\ dd_resp' = [NoResp EXCEPT
                          !.duplicates = find_semantic_duplicates(dd_similarities, limit, threshold),
                          !.scored = Len(dd_similarities) > 0]
    /\ dd_pc' = "returned"
    /\ UNCHANGED dd_similarities
    /\ UNCHANGED <<svcVars, tkVars, dlVars, otherVars>>

\* POST /api/check_duplicates, api.py:91-139
DdCheckDuplicates ==
    /\ dd_pc = "idle"
    /\ \E header \in Headers : \E authorized \in BOOLEAN :
       \E short \in BOOLEAN : \E module_found \in BOOLEAN :
        LET parsed == parse_similarity_threshold(header) IN
        /\ dd_call' = [NoCall EXCEPT !.entry = "check_duplicates", !.header = header,
                                     !.limit = DefaultLimit, !.authorized = authorized,
                                     !.short = short, !.module_found = module_found]
        /\ dd_resp' =
             IF ~authorized THEN [NoResp EXCEPT !.status = 401, !.error = "Unauthorized"]
             \* line 119: no question, no module or a question shorter than 10
             ELSE IF short THEN [NoResp EXCEPT !.status = 200]
             ELSE IF parsed.error # "none" THEN [NoResp EXCEPT !.status = 400, !.error = parsed.error]
             ELSE IF ~module_found THEN [NoResp EXCEPT !.status = 200]
             ELSE [NoResp EXCEPT
                     !.status = 200,
                     !.duplicates = find_semantic_duplicates(dd_similarities, DefaultLimit,
                                                             parsed.threshold),
                     !.scored = Len(dd_similarities) > 0]
    /\ dd_pc' = "returned"
    /\ UNCHANGED dd_similarities
    /\ UNCHANGED <<svcVars, tkVars, dlVars, otherVars>>

\* POST /api/ingest_flashcards with one flashcard, api.py:142-334
DdIngest ==
    /\ dd_pc = "idle"
    /\ \E header \in Headers : \E authorized \in BOOLEAN :
       \E payload \in BOOLEAN : \E module_found \in BOOLEAN : \E pending \in BOOLEAN :
        LET parsed == parse_similarity_threshold(header)
            matches == IF module_found
                       THEN find_semantic_duplicates(dd_similarities, DefaultLimit, parsed.threshold)
                       ELSE <<>>
        IN
        /\ dd_call' = [NoCall EXCEPT !.entry = "ingest_flashcards", !.header = header,
                                     !.limit = DefaultLimit, !.authorized = authorized,
                                     !.payload = payload, !.module_found = module_found,
                                     !.pending = pending]
        /\ dd_resp' =
             IF ~authorized THEN [NoResp EXCEPT !.status = 401, !.error = "Unauthorized"]
             ELSE IF parsed.error # "none" THEN [NoResp EXCEPT !.status = 400, !.error = parsed.error]
             \* lines 167-173: no JSON payload or no flashcards in it
             ELSE IF ~payload THEN [NoResp EXCEPT !.status = 400, !.error = "No flashcards provided"]
             ELSE IF Len(matches) > 0
                  THEN [NoResp EXCEPT !.status = 207, !.duplicates = matches, !.scored = TRUE]
             \* line 263: the same question already awaits review
             ELSE IF pending
                  THEN [NoResp EXCEPT !.status = 207,
                                      !.scored = module_found /\ Len(dd_similarities) > 0]
                  ELSE [NoResp EXCEPT !.status = 201, !.inserted = TRUE,
                                      !.scored = module_found /\ Len(dd_similarities) > 0]
    /\ dd_pc' = "returned"
    /\ UNCHANGED dd_similarities
    /\ UNCHANGED <<svcVars, tkVars, dlVars, otherVars>>

DdNext ==
    \/ DdFind
    \/ DdCheckDuplicates
    \/ DdIngest

DupInit ==
    DdInit /\ TkInit /\ tk_q = <<97>> /\ tk_u = 1 /\ tk_t = MaxTime /\ SvcInit /\ DlIdle /\ OtherIdle

SpecDup == DupInit /\ [][DdNext]_vars

DdReturned == dd_pc = "returned"
Direct == dd_call.entry = "find_semantic_duplicates"
\* the corpus questions whose similarity meets the threshold
Meeting(threshold) == { i \in 1..Len(dd_similarities) : dd_similarities[i] >= threshold }
Returned == { dd_resp.duplicates[j].idx : j \in 1..Len(dd_resp.duplicates) }

\* C14: a call with limit >= 0 returns the matches in non-increasing
\* similarity order, each a corpus question with its own score, which is
\* >= threshold; it returns min(limit, k) of the k questions meeting the
\* threshold, and none it left out scores higher than one it returned
C14_TopMatches ==
    (DdReturned /\ Direct /\ dd_call.limit >= 0) =>
        LET res == dd_resp.duplicates
            k == Cardinality(Meeting(dd_call.threshold))
        IN /\ \A j \in 1..Len(res) - 1 : res[j].similarity >= res[j + 1].similarity
           /\ \A j \in 1..Len(res) :
                /\ res[j].idx \in Meeting(dd_call.threshold)
                /\ res[j].similarity = dd_similarities[res[j].idx]
           /\ Cardinality(Returned) = Len(res)
           /\ Len(res) = Min(dd_call.limit, k)
           /\ \A i \in Meeting(dd_call.threshold) \ Returned :
                \A j \in 1..Len(res) : res[j].similarity >= dd_similarities[i]

\* the limit cut off a question that meets the threshold, and another
\* question was below the threshold
C14_Witness ==
    /\ DdReturned /\ Direct
    /\ dd_call.limit > 0
    /\ Len(dd_resp.duplicates) = dd_call.limit
    /\ Cardinality(Meeting(dd_call.threshold)) > dd_call.limit
    /\ Cardinality(Meeting(dd_call.threshold)) < Len(dd_similarities)
    /\ dd_similarities[1] < dd_similarities[Len(dd_similarities)]

\* the threshold or limit a call or request carries is outside its range
HeaderValue == ParseFloat(dd_call.header.text)
OutOfRange ==
    IF Direct
    THEN dd_call.threshold < 0 \/ dd_call.threshold > 10 \/ dd_call.limit < 0
    ELSE /\ dd_call.authorized
         /\ dd_call.header.present /\ dd_call.header.text # <<>>
         /\ HeaderValue.ok
         /\ (HeaderValue.value < 0 \/ HeaderValue.value > 10)
ValidationError == dd_resp.status = 400 /\ dd_resp.error = "must be between 0.0 and 1.0"

\* background to C16: the requests that are rejected
IngestRejectsOutOfRange ==
    (DdReturned /\ dd_call.entry = "ingest_flashcards" /\ OutOfRange)
        => (ValidationError /\ ~dd_resp.scored)
CheckDuplicatesRejectsOutOfRange ==
    (DdReturned /\ dd_call.entry = "check_duplicates" /\ OutOfRange /\ ~dd_call.short)
        => (ValidationError /\ ~dd_resp.scored)
NoScoringOutOfRange ==
    (DdReturned /\ ~Direct /\ OutOfRange) => ~dd_resp.scored

\* C16: a call or an authorized request that carries a threshold or limit
\* outside its range is answered with the validation error, and no scoring
\* was done for it
C16_OutOfRangeRejected ==
    (DdReturned /\ OutOfRange) => (ValidationError /\ ~dd_resp.scored)

\* ---------------------------------------------------------------------
\* SpecDeal: the distractor selection of get_question (routes/main.py,
\* models/supabase_adapter.py) applied to bounded stores
\* ---------------------------------------------------------------------
NumberOfDistractors == 4     \* Config.NUMBER_OF_DISTRACTORS
MaxRows == 6                 \* rows of the table questions

\* the rows a store is made of: answers "t", "p", "q", "r", "s", again "p",
\* again "t", "", " " in module 1 and "u" in module 2
Catalogue ==
    << Row(1, 1, <<116>>, {1}, {1}, {1}),
       Row(2, 1, <<112>>, {1}, {}, {}),
       Row(3, 1, <<113>>, {}, {1}, {}),
       Row(4, 1, <<114>>, {}, {}, {1}),
       Row(5, 1, <<115>>, {}, {}, {}),
       Row(6, 1, <<112>>, {1}, {1}, {}),
       Row(7, 1, <<116>>, {1}, {1}, {1}),
       Row(8, 1, <<>>, {1}, {1}, {1}),
       Row(9, 1, <<32>>, {1}, {}, {}),
       Row(10, 2, <<117>>, {1}, {1}, {1}) >>

RECURSIVE Ascending(_)
Ascending(S) ==
    IF S = {} THEN <<>>
    ELSE LET x == CHOOSE x \in S : \A y \in S : x <= y
         IN <<x>> \o Ascending(S \ {x})
Reverse(seq) == [i \in 1..Len(seq) |-> seq[Len(seq) + 1 - i]]
\* a select without ORDER BY returns the rows in an order of the store's choosing
RowOrders ==
    UNION { { Ascending(S), Reverse(Ascending(S)) } :
            S \in { T \in SUBSET (1..Len(Catalogue)) : Cardinality(T) <= MaxRows } }
Stores == { [i \in 1..Len(o) |-> Catalogue[o[i]]] : o \in RowOrders }

\* manual distractors exist for question 1: none, "m", "", or "m" "n" "o" "k" "l"
ManualTexts == { <<>>, << <<109>> >>, << <<>> >>, << <<109>>, <<110>>, <<111>>, <<107>>, <<108>> >> }
ManualTables ==
    { [i \in 1..Len(texts) |-> [question_id |-> 1, distractor_text |-> texts[i]]] :
      texts \in ManualTexts }

\* modules 1 and 2 exist; no module has the third name
ModuleNames == { 1, 2, 3 }
KnownModules == { 1, 2 }

\* not (text and text.strip())
Blank(text) == \A i \in 1..Len(text) : text[i] \in { 32, 9, 10, 13 }

\* variant: the weighted overlaps without the bonus points
calculate_distractor_similarity_score_no_bonus(current_topics, current_subtopics, current_tags, distractor_topics, distractor_subtopics, distractor_tags) ==
    Cardinality(current_topics \cap distractor_topics) * 3
    + Cardinality(current_subtopics \cap distractor_subtopics) * 2
    + Cardinality(current_tags \cap distractor_tags) * 1

\* main.py:32-72
calculate_distractor_similarity_score(current_topics, current_subtopics, current_tags, distractor_topics, distractor_subtopics, distractor_tags) ==
    LET topic_overlap == Cardinality(current_topics \cap distractor_topics)
        subtopic_overlap == Cardinality(current_subtopics \cap distractor_subtopics)
        tag_overlap == Cardinality(current_tags \cap distractor_tags)
    IN topic_overlap * 3 + subtopic_overlap * 2 + tag_overlap * 1
       + (IF topic_overlap > 0 THEN 2 ELSE 0)
       + (IF subtopic_overlap > 0 THEN 1 ELSE 0)

\* scored_distractors.sort(key=score, reverse=True): descending and stable
RECURSIVE InsertByScore(_, _)
InsertByScore(sorted, x) ==
    IF Len(sorted) = 0 THEN <<x>>
    ELSE IF Head(sorted).score >= x.score
         THEN <<Head(sorted)>> \o InsertByScore(Tail(sorted), x)
         ELSE <<x>> \o sorted
RECURSIVE SortByScore(_)
SortByScore(seq) ==
    IF Len(seq) = 0 THEN <<>>
    ELSE InsertByScore(SortByScore(SubSeq(seq, 1, Len(seq) - 1)), seq[Len(seq)])

\* the entries of the answer list: text, answer_ids, answer_types
QuestionEntry(row) == [answer |-> row.answer, id |-> row.id, type |-> "question"]
ManualEntry(d) == [answer |-> d.distractor_text, id |-> 0, type |-> "manual_distractor"]

\* questions of the module, lines 158 and 306
ModuleRows(module_id) == SelectSeq(questions, LAMBDA r : r.module_id = module_id)

\* variant: the other questions of every module
OtherQuestions_any_module(module_id, question_id) ==
    SelectSeq(questions, LAMBDA r : r.id # question_id)

\* line 198: .eq('module_id', module_id).neq('id', question['id'])
OtherQuestions(module_id, question_id) ==
    SelectSeq(questions, LAMBDA r : r.module_id = module_id /\ r.id # question_id)

\* lines 176-177: .eq('question_id', question['id']).order('created_at')
ManualOf(question_id) == SelectSeq(manual_distractors, LAMBDA d : d.question_id = question_id)

\* lines 186-191
RECURSIVE AddManual(_, _)
AddManual(answers, manual) ==
    IF Len(manual) = 0 THEN answers
    ELSE AddManual(IF Len(answers) <= NumberOfDistractors
                   THEN Append(answers, ManualEntry(Head(manual)))
                   ELSE answers,
                   Tail(manual))

\* lines 196-238: the best-scoring other questions of the module
ScoredDistractors(question, others) ==
    [i \in 1..Len(others) |->
        [question |-> others[i],
         score |-> calculate_distractor_similarity_score(
                       question.topics, question.subtopics, question.tags,
                       others[i].topics, others[i].subtopics, others[i].tags)]]
BestDistractors(question, remaining_needed) ==
    LET scored_distractors ==
            SortByScore(ScoredDistractors(question, OtherQuestions(question.module_id, question.id)))
    IN SubSeq(scored_distractors, 1, Min(remaining_needed, Len(scored_distractors)))

\* lines 240-258: blank answers are dropped; an empty list becomes the correct answer
ValidAnswers(question, answers) ==
    LET valid_answers == SelectSeq(answers, LAMBDA a : ~Blank(a.answer))
    IN IF Len(valid_answers) = 0 THEN << QuestionEntry(question) >> ELSE valid_answers

\* random.shuffle: the list is returned in any order
SeqToBag(seq) ==
    [x \in { seq[i] : i \in 1..Len(seq) } |-> Cardinality({ i \in 1..Len(seq) : seq[i] = x })]

\* lines 179-263: the answer list for a question picked without filters
AnswersRandom(question) ==
    LET answers == AddManual(<< QuestionEntry(question) >>, ManualOf(question.id))
        remaining_needed == NumberOfDistractors + 1 - Len(answers)
        best_distractors == IF remaining_needed > 0
                            THEN BestDistractors(question, remaining_needed) ELSE <<>>
        more == [i \in 1..Len(best_distractors) |-> QuestionEntry(best_distractors[i].question)]
    IN ValidAnswers(question, answers \o more)

\* supabase_adapter.py:373-394 with RPC functions disabled: the first `limit`
\* other questions of the module
SmartDistractorsFallback(question, limit) ==
    LET others == OtherQuestions(question.module_id, question.id)
    IN SubSeq(others, 1, Min(limit, Len(others)))

DlInit ==
    /\ dl_pc = "idle"
    /\ questions \in Stores
    /\ manual_distractors \in ManualTables
    /\ dl_call = NoDealCall
    /\ dl_resp = NoDeal

Dealt(question, answers) ==
    [NoDeal EXCEPT !.status = "ok", !.question = question, !.answers = SeqToBag(answers)]
DealError(text) == [NoDeal EXCEPT !.status = "error", !.error = text]
DealRaised(text) == [NoDeal EXCEPT !.status = "raised", !.error = text]

\* get_question without filters and without question_id, lines 125-288
DealRandom(module) ==
    /\ dl_pc = "idle"
    /\ dl_call' = [NoDealCall EXCEPT !.path = "random", !.module = module]
    /\ IF module \notin KnownModules THEN dl_resp' = DealError("Module not found")
       ELSE IF Len(ModuleRows(module)) = 0
       THEN dl_resp' = DealError("No questions found in the selected module.")
       ELSE \E i \in 1..Len(ModuleRows(module)) :
               LET question == ModuleRows(module)[i]
               IN dl_resp' = Dealt(question, AnswersRandom(question))
    /\ dl_pc' = "dealt"
    /\ UNCHANGED <<questions, manual_distractors>>
    /\ UNCHANGED <<svcVars, tkVars, ddVars, otherVars>>

\* get_question with topic, subtopic or tag filters while RPC functions are
\* disabled, lines 289-400
DealFiltered(module) ==
    /\ dl_pc = "idle"
    /\ dl_call' = [NoDealCall EXCEPT !.path = "filtered", !.module = module]
    /\ IF module \notin KnownModules THEN dl_resp' = DealError("Module not found")
       ELSE IF Len(ModuleRows(module)) = 0
       THEN dl_resp' = DealError("No questions found in the selected module.")
       ELSE \E i \in 1..Len(ModuleRows(module)) :
               LET question == ModuleRows(module)[i]
                   answers == AddManual(<< QuestionEntry(question) >>, ManualOf(question.id))
                   remaining_needed == NumberOfDistractors + 1 - Len(answers)
                   smart_distractors == IF remaining_needed > 0
                                        THEN SmartDistractorsFallback(question, remaining_needed)
                                        ELSE <<>>
               IN \* line 347: the fallback rows have no key 'answer'
                  IF Len(smart_distractors) > 0
                  THEN dl_resp' = DealRaised("KeyError")
                  ELSE dl_resp' = Dealt(question, ValidAnswers(question, answers))
    /\ dl_pc' = "dealt"
    /\ UNCHANGED <<questions, manual_distractors>>
    /\ UNCHANGED <<svcVars, tkVars, ddVars, otherVars>>

\* get_question with question_id: questions_result is never bound, line 306
DealSpecific(module, question_id) ==
    /\ dl_pc = "idle"
    /\ dl_call' = [NoDealCall EXCEPT !.path = "specific", !.module = module,
                                     !.question_id = question_id]
    /\ IF module \notin KnownModules THEN dl_resp' = DealError("Module not found")
       ELSE dl_resp' = DealRaised("UnboundLocalError")
    /\ dl_pc' = "dealt"
    /\ UNCHANGED <<questions, manual_distractors>>
    /\ UNCHANGED <<svcVars, tkVars, ddVars, otherVars>>

DlNext ==
    \/ \E module \in ModuleNames : DealRandom(module)
    \/ \E module \in ModuleNames : DealFiltered(module)
    \/ \E module \in ModuleNames : \E question_id \in { 1, 10 } : DealSpecific(module, question_id)

DealInit ==
    DlInit /\ TkInit /\ tk_q = <<97>> /\ tk_u = 1 /\ tk_t = MaxTime /\ SvcInit /\ DdIdle /\ OtherIdle

SpecDeal == DealInit /\ [][DlNext]_vars

\* ---------------------------------------------------------------------
\* Properties of the distractor selection (SpecDeal) and of the
\* duplicate detector on an empty corpus (SpecDup)
\* ---------------------------------------------------------------------
DealDone == dl_pc = "dealt"
DealtOk == DealDone /\ dl_resp.status = "ok"
Target == dl_resp.question
Offered == BagToSet(dl_resp.answers)
\* the offered entries other than the dealt question's own answer
Distractors == { e \in Offered : ~(e.type = "question" /\ e.id = Target.id) }
DistractorCount == SumCopies(dl_resp.answers, Distractors)
TextCount(text) == SumCopies(dl_resp.answers, { e \in Offered : e.answer = text })
StoredRows == { questions[i] : i \in 1..Len(questions) }
\* the module asked for holds no question, or none but the target
EmptyCorpus == dl_call.module \in KnownModules /\ Len(ModuleRows(dl_call.module)) <= 1

\* background to C15: the duplicate detector on a module without questions
EmptyCorpusNoDuplicates ==
    (DdReturned /\ Len(dd_similarities) = 0)
        => (dd_resp.duplicates = <<>> /\ ~dd_resp.scored)
\* background to C15: without question_id nothing is raised and no answer of
\* another question is offered
EmptyCorpusNoQuestionDistractor ==
    (DealDone /\ EmptyCorpus /\ dl_call.path # "specific")
        => /\ dl_resp.status # "raised"
           /\ \A e \in Distractors : e.type = "manual_distractor"

\* C15: a get_question request for a module that holds no question, or no
\* question but the target, raises nothing and offers no distractor
C15_EmptyCorpusNoDistractors ==
    (DealDone /\ EmptyCorpus) => (dl_resp.status # "raised" /\ DistractorCount = 0)

\* C17: no distractor offered carries the text of the target's correct
\* answer, and no text occurs twice in the dealt answer list
C17_Exclusive ==
    DealtOk =>
        /\ \A e \in Distractors : e.answer # Target.answer
        /\ \A e \in Offered : TextCount(e.answer) = 1

\* the distinct non-blank answers, other than the target's, of the other
\* questions of the target's module
UsableAnswers ==
    { r.answer : r \in { x \in StoredRows : /\ x.module_id = Target.module_id
                                            /\ x.id # Target.id
                                            /\ ~Blank(x.answer)
                                            /\ x.answer # Target.answer } }

\* background to C18: never more than NUMBER_OF_DISTRACTORS distractors
DistractorsAtMostN == DealDone => DistractorCount <= NumberOfDistractors

\* C18: at most NUMBER_OF_DISTRACTORS distractors are offered, and exactly
\* that many when the other questions of the target's module have at least
\* that many distinct non-empty answers
C18_CountBound ==
    DealtOk =>
        /\ DistractorCount <= NumberOfDistractors
        /\ Cardinality(UsableAnswers) >= NumberOfDistractors
              => DistractorCount = NumberOfDistractors

\* C19: every offered answer of another question is the answer of a
\* question of the target's module
C19_SameModule ==
    DealtOk =>
        \A e \in Distractors :
            e.type = "question" =>
                \E r \in StoredRows : r.id = e.id /\ r.module_id = Target.module_id

\* answers of other questions were offered and did not fill the list, while
\* a question of another module was in the store
C19_Witness ==
    /\ DealtOk
    /\ \E e \in Distractors : e.type = "question"
    /\ DistractorCount < NumberOfDistractors
    /\ \E r \in StoredRows : r.module_id # Target.module_id

\* ---------------------------------------------------------------------
\* SpecScore: the distractor score applied to bounded taxonomy memberships
\* ---------------------------------------------------------------------
MaxLabel == 2      \* topics, subtopics and tags are drawn from 1..MaxLabel
Labels == 1..MaxLabel
Taxonomies ==
    { Taxonomy(to, su, ta) : to \in SUBSET Labels, su \in SUBSET Labels, ta \in SUBSET Labels }

\* flashcardsite.py:637-641: total_score = tag_score * 3 + subtopic_score * 2 + topic_score
legacy_total_score(question, cand) ==
    LET tag_score == Cardinality(question.tags \cap cand.tags)
        subtopic_score == Cardinality(question.subtopics \cap cand.subtopics)
        topic_score == Cardinality(question.topics \cap cand.topics)
    IN tag_score * 3 + subtopic_score * 2 + topic_score

ScInit ==
    /\ sc_pc = "idle"
    /\ sc_current \in Taxonomies
    /\ sc_distractor \in Taxonomies
    /\ sc_by = "none"
    /\ sc_score = 0

\* get_question of routes/main.py scores a candidate, lines 216-222
ScoreMain ==
    /\ sc_pc = "idle"
    /\ sc_score' = calculate_distractor_similarity_score(
                       sc_current.topics, sc_current.subtopics, sc_current.tags,
                       sc_distractor.topics, sc_distractor.subtopics, sc_distractor.tags)
    /\ sc_by' = "main"
    /\ sc_pc' = "scored"
    /\ UNCHANGED <<sc_current, sc_distractor>>
    /\ UNCHANGED <<svcVars, tkVars, ddVars, dlVars, tvVars, lateVars>>

\* get_question of flashcardsite.py scores a candidate, lines 630-645
ScoreLegacy ==
    /\ sc_pc = "idle"
    /\ sc_score' = legacy_total_score(sc_current, sc_distractor)
    /\ sc_by' = "legacy"
    /\ sc_pc' = "scored"
    /\ UNCHANGED <<sc_current, sc_distractor>>
    /\ UNCHANGED <<svcVars, tkVars, ddVars, dlVars, tvVars, lateVars>>

ScNext ==
    \/ ScoreMain
    \/ ScoreLegacy

ScoreInit ==
    /\ ScInit /\ TkInit /\ tk_q = <<97>> /\ tk_u = 1 /\ tk_t = MaxTime /\ SvcInit
    /\ DdIdle /\ DlIdle /\ TvIdle /\ LateIdle

SpecScore == ScoreInit /\ [][ScNext]_vars

Scored == sc_pc = "scored"
SharedTopics == Cardinality(sc_current.topics \cap sc_distractor.topics)
SharedSubtopics == Cardinality(sc_current.subtopics \cap sc_distractor.subtopics)
SharedTags == Cardinality(sc_current.tags \cap sc_distractor.tags)

ScoreAgainst(question, row) ==
    calculate_distractor_similarity_score(question.topics, question.subtopics, question.tags,
                                          row.topics, row.subtopics, row.tags)
\* the other questions of the target's module that have an answer to offer
Eligible(question) ==
    { r \in StoredRows : r.module_id = question.module_id /\ r.id # question.id /\ ~Blank(r.answer) }
\* the answer lists get_question without filters can build for a target:
\* lines 179-258 draw no random number, the one shuffle (line 262) comes
\* after the selection
SelectionsFor(question) == { AnswersRandom(question) }
Has(answers, row) == \E i \in 1..Len(answers) : answers[i] = QuestionEntry(row)
\* dealing `question` can offer the answer of row a without that of row b
CanOfferFirst(question, a, b) ==
    \E answers \in SelectionsFor(question) : Has(answers, a) /\ ~Has(answers, b)
Position(row) == CHOOSE i \in 1..Len(questions) : questions[i] = row

\* background to C22: an offered candidate scores at least as high as any
\* eligible candidate left out, and among equal scores the store's row
\* order decides
SelectedByScoreThenStoreOrder ==
    (DealtOk /\ dl_call.path = "random") =>
        \A a \in Eligible(Target) : \A b \in Eligible(Target) :
            (BagIn(QuestionEntry(a), dl_resp.answers) /\ ~BagIn(QuestionEntry(b), dl_resp.answers))
                => \/ ScoreAgainst(Target, a) > ScoreAgainst(Target, b)
                   \/ /\ ScoreAgainst(Target, a) = ScoreAgainst(Target, b)
                      /\ Position(a) < Position(b)

\* C22: when a deal offers one of two eligible candidates with the same
\* score and leaves the other out, a deal of the same target from the same
\* store can also offer the other and leave the one out
C22_TiesEitherWay ==
    (DealtOk /\ dl_call.path = "random") =>
        \A a \in Eligible(Target) : \A b \in Eligible(Target) :
            (/\ ScoreAgainst(Target, a) = ScoreAgainst(Target, b)
             /\ BagIn(QuestionEntry(a), dl_resp.answers)
             /\ ~BagIn(QuestionEntry(b), dl_resp.answers))
                => CanOfferFirst(Target, b, a)

\* C23: matches with equal similarity are returned in the order of the
\* corpus rows, and of two corpus questions with equal similarity that meet
\* the threshold the later one is returned only if the earlier one is
C23_TiesInCorpusOrder ==
    DdReturned =>
        LET res == dd_resp.duplicates IN
        /\ \A j \in 1..Len(res) - 1 :
              res[j].similarity = res[j + 1].similarity => res[j].idx < res[j + 1].idx
        /\ \A i \in Returned : \A h \in 1..i - 1 :
              dd_similarities[h] = dd_similarities[i] => h \in Returned

\* two equal matches were returned and a third one, later in the corpus,
\* was cut off by the limit
C23_Witness ==
    /\ DdReturned /\ Direct
    /\ Len(dd_similarities) = 3
    /\ dd_similarities[1] = dd_similarities[2] /\ dd_similarities[2] = dd_similarities[3]
    /\ Len(dd_resp.duplicates) = 2
    /\ dd_resp.duplicates[1].idx = 1 /\ dd_resp.duplicates[2].idx = 2

\* ---------------------------------------------------------------------
\* SpecTerms: the preprocessing of find_semantic_duplicates
\* (models/question.py:398-420) applied to bounded texts
\* ---------------------------------------------------------------------
MaxWords == 2      \* words of a text

\* "The", "cat", "is", "ox", "city", "Capital", "what", "France"
Vocabulary ==
    { <<84, 104, 101>>, <<99, 97, 116>>, <<105, 115>>, <<111, 120>>, <<99, 105, 116, 121>>, <<67, 97, 112, 105, 116, 97, 108>>, <<119, 104, 97, 116>>, <<70, 114, 97, 110, 99, 101>> }
\* " ", ", ", "?", "-"
Separators == { <<32>>, <<44, 32>>, <<63>>, <<45>> }

\* line 400: stop_words
StopWords ==
    { <<116, 104, 101>>, <<97>>, <<97, 110>>, <<105, 110>>, <<111, 110>>, <<97, 116>>,
      <<116, 111>>, <<102, 111, 114>>, <<119, 105, 116, 104>>, <<98, 121>>,
      <<97, 98, 111, 117, 116>>, <<97, 115>>, <<111, 102>>, <<97, 110, 100>>, <<111, 114>>,
      <<105, 115>>, <<97, 114, 101>>, <<119, 97, 115>>, <<119, 101, 114, 101>>,
      <<98, 101>>, <<98, 101, 101, 110>>, <<98, 101, 105, 110, 103>>,
      <<104, 97, 118, 101>>, <<104, 97, 115>>, <<104, 97, 100>>, <<100, 111>>,
      <<100, 111, 101, 115>>, <<100, 105, 100>>, <<119, 104, 97, 116>>,
      <<119, 104, 101, 110>>, <<119, 104, 101, 114, 101>>, <<119, 104, 121>>,
      <<104, 111, 119>>, <<119, 104, 105, 99, 104>>, <<119, 104, 111>>,
      <<119, 104, 111, 109>>, <<116, 104, 105, 115>>, <<116, 104, 97, 116>>,
      <<116, 104, 101, 115, 101>>, <<116, 104, 111, 115, 101>> }

\* line 410: the characters of '.,?!;:()[]{}""\''
PunctuationChars == { 33, 34, 39, 40, 41, 44, 46, 58, 59, 63, 91, 93, 123, 125 }
\* the characters str.split() splits on
WhitespaceChars == { 9, 10, 11, 12, 13, 32 }

\* doc.lower()
Lower(text) ==
    [i \in 1..Len(text) |-> IF text[i] \in 65..90 THEN text[i] + 32 ELSE text[i]]
\* lines 410-411: doc_lower.replace(char, ' ')
ReplacePunctuation(text) ==
    [i \in 1..Len(text) |-> IF text[i] \in PunctuationChars THEN 32 ELSE text[i]]
\* doc_lower.split()
RECURSIVE SplitWords(_, _)
SplitWords(text, cur) ==
    IF Len(text) = 0 THEN (IF Len(cur) = 0 THEN <<>> ELSE <<cur>>)
    ELSE IF Head(text) \in WhitespaceChars
         THEN (IF Len(cur) = 0 THEN <<>> ELSE <<cur>>) \o SplitWords(Tail(text), <<>>)
         ELSE SplitWords(Tail(text), Append(cur, Head(text)))
\* word[:6]
Prefix6(word) == SubSeq(word, 1, Min(6, Len(word)))
MapPrefix6(words) == [i \in 1..Len(words) |-> Prefix6(words[i])]

\* lines 406-420: the processed document of a text
ProcessedDoc(doc) ==
    LET doc_lower == ReplacePunctuation(Lower(doc))
        tokens == SelectSeq(SplitWords(doc_lower, <<>>),
                            LAMBDA word : word \notin StopWords /\ Len(word) > 2)
        stemmed == MapPrefix6(SelectSeq(tokens, LAMBDA word : Len(word) > 3))
    IN stemmed

\* the text written with words and what follows each of them
RECURSIVE Join(_, _)
Join(words, seps) ==
    IF Len(words) = 0 THEN <<>>
    ELSE Head(words) \o Head(seps) \o Join(Tail(words), Tail(seps))

TvInit ==
    /\ tv_pc = "idle"
    /\ \E n \in 0..MaxWords :
          /\ tv_words \in [1..n -> Vocabulary]
          /\ tv_seps \in [1..n -> Separators]
    /\ tv_text = Join(tv_words, tv_seps)
    /\ tv_terms = <<>>

\* find_semantic_duplicates preprocesses the text, lines 406-420
TvProcess ==
    /\ tv_pc = "idle"
    /\ tv_terms' = ProcessedDoc(tv_text)
    /\ tv_pc' = "done"
    /\ UNCHANGED <<tv_words, tv_seps, tv_text>>
    /\ UNCHANGED <<svcVars, tkVars, ddVars, dlVars, scVars, lateVars>>

TvNext == TvProcess

TermsInit ==
    /\ TvInit /\ TkInit /\ tk_q = <<97>> /\ tk_u = 1 /\ tk_t = MaxTime /\ SvcInit
    /\ DdIdle /\ DlIdle /\ ScIdle /\ LateIdle

SpecTerms == TermsInit /\ [][TvNext]_vars

TvDone == tv_pc = "done"
\* the words of the text in lowercase; a hyphen joins a word to the next
RECURSIVE Hyphenated(_, _, _)
Hyphenated(words, seps, cur) ==
    IF Len(words) = 0 THEN (IF Len(cur) = 0 THEN <<>> ELSE <<cur>>)
    ELSE IF Head(seps) = <<45>>
         THEN Hyphenated(Tail(words), Tail(seps), cur \o Lower(Head(words)) \o <<45>>)
         ELSE <<cur \o Lower(Head(words))>> \o Hyphenated(Tail(words), Tail(seps), <<>>)
Kept(words) == SelectSeq(words, LAMBDA w : w \notin StopWords /\ Len(w) > 2)
StemOrKeep(words) ==
    [i \in 1..Len(words) |-> IF Len(words[i]) > 3 THEN Prefix6(words[i]) ELSE words[i]]

\* background to C24: what the preprocessing yields: the stop words and the
\* tokens of up to 3 characters are removed, the others cut to 6 characters;
\* a hyphen is not among the replaced characters
TermsAsComputed ==
    TvDone =>
        tv_terms = MapPrefix6(SelectSeq(Kept(Hyphenated(tv_words, tv_seps, <<>>)),
                                        LAMBDA w : Len(w) > 3))

\* C24: the terms are the lowercased words of the text without the stop
\* words and the words of up to 2 characters, each cut to its first 6
\* characters if it is longer than 3 and unchanged otherwise
C24_TermsOfText ==
    TvDone => tv_terms = StemOrKeep(Kept([i \in 1..Len(tv_words) |-> Lower(tv_words[i])]))

\* ---------------------------------------------------------------------
\* Rejected and failed check_answer requests (Spec)
\* ---------------------------------------------------------------------
\* the token of request e does not verify for its user, or is redeemed
TokenRejected(e) ==
    \/ ~Verify(e.token, e.user).valid
    \/ CopiesIn(<<e.user, e.token>>, used_tokens) > 0

C25_Step ==
    BagCardinality(req') > BagCardinality(req) =>
      \A e \in BagToSet(req') :
        (Arrived(e) /\ TokenRejected(e)) =>
            /\ e.pc = "done"
            /\ e.resp \in {RespMissing, RespInvalid, RespAlreadyUsed, RespServerError}
            /\ UNCHANGED <<used_tokens, user_stats, module_stats>>

\* C25: a request whose token does not verify for its user or is already
\* redeemed is answered in the step it arrives, and that step leaves
\* used_tokens, user_stats and module_stats unchanged
C25_RejectionWritesNothing == [][C25_Step]_vars

\* a redeemed token was presented again and rejected, with the rows of
\* the redemption in all three tables
C25_Witness ==
    /\ \E e \in Received : e.resp = RespAlreadyUsed /\ e.pc = "done"
    /\ used_tokens # EmptyBag
    /\ \E u \in SessionUsers : user_stats[u] # NoUserRow

\* a token dealt to another user was rejected
C25_OtherUserRejected ==
    \E e \in Received : e.resp = RespInvalid /\ e.token # NoToken /\ ~Verify(e.token, e.user).valid

\* the request ended with an error reported to the caller
EndedInError(e) == e.pc = "done" /\ e.resp \in Rejections \cup {RespStoreError, RespServerError}

TablesUntouched ==
    /\ used_tokens = EmptyBag
    /\ \A u \in SessionUsers : user_stats[u] = NoUserRow
    /\ \A k \in SessionUsers \X Modules : module_stats[k] = NoModuleRow

\* C26: a check_answer request that ends with an error has modified none
\* of module_stats, user_stats and used_tokens; so while every request
\* received so far has ended with an error, the three tables are as they
\* were before the first request
C26_FailedGradingWritesNothing ==
    (\A e \in Received : EndedInError(e)) => TablesUntouched

\* ---------------------------------------------------------------------
\* Deals of one question to one user within one second (Spec)
\* ---------------------------------------------------------------------
\* the question a token was dealt for, as user u's check_answer decodes it
DealtQuestion(t, u) == Verify(t, u).question_id

\* t1 and t2 were returned by deals of the same question to the same user
SameDeal(t1, t2) ==
    \E u \in Dealers :
        /\ Verify(t1, u).valid /\ Verify(t2, u).valid
        /\ DealtQuestion(t1, u) = DealtQuestion(t2, u)

\* a request of e's user for the question of e's token was answered correct
RedeemedDealOf(e) ==
    \E d \in Received :
        /\ d.user = e.user /\ d.pc = "done" /\ d.resp = RespCorrect
        /\ DealtQuestion(d.token, d.user) = DealtQuestion(e.token, e.user)

C27_Step ==
    /\ issued' # issued => \A t1, t2 \in issued' : SameDeal(t1, t2) => t1 = t2
    /\ BagCardinality(req') > BagCardinality(req) =>
          \A e \in BagToSet(req') :
            (Arrived(e) /\ LookedUp(e) /\ e.token \in issued /\ Verify(e.token, e.user).valid
                /\ RedeemedDealOf(e)) => e.resp = RespAlreadyUsed

\* C27: the deals of one question to one user within one second all return
\* the same token, and once a request with that token was answered correct,
\* a request with the token of any such deal is rejected as already used
C27_SameSecondSameToken == [][C27_Step]_vars

\* a token was redeemed with a correct answer and the token of a deal of
\* the same question was then rejected as already used
C27_Witness ==
    \E e, d \in Received :
        /\ e.resp = RespAlreadyUsed /\ d.resp = RespCorrect /\ d.user = e.user
        /\ e.token \in issued /\ SameDeal(e.token, d.token)

\* ---------------------------------------------------------------------
\* The correct answer in the dealt list (SpecDeal)
\* ---------------------------------------------------------------------
\* the dealt list holds the text of the dealt question's answer
CorrectAnswerOffered == \E e \in Offered : e.answer = Target.answer

\* a dealt question whose answer is not blank is offered its answer
NonBlankTargetOffered == (DealtOk /\ ~Blank(Target.answer)) => CorrectAnswerOffered

\* C28: the answer list of every dealt question contains the text of the
\* question's correct answer, whatever the manual distractors, the scored
\* distractors and the blank answer texts are
C28_CorrectAnswerOffered == DealtOk => CorrectAnswerOffered

\* a question whose answer is whitespace was dealt a list without that text
WhitespaceTargetDropped ==
    DealtOk /\ Target.answer # <<>> /\ Blank(Target.answer) /\ ~CorrectAnswerOffered

\* ---------------------------------------------------------------------
\* SpecStats: check_answer, update_user_stats and get_or_create_user_stats
\* writing user_stats and module_stats concurrently
\* ---------------------------------------------------------------------
\* user.py lines 74, 89, 98: 1 if is_correct else 0
Credit(is_correct) == IF is_correct THEN 1 ELSE 0

\* the frame of the actions of update_user_stats and get_or_create_user_stats
StatsFrame ==
    /\ UNCHANGED <<issued, used_tokens, req, failures>>
    /\ UNCHANGED <<tkVars, ddVars, dlVars, scVars, tvVars, igVars>>

\* update_user_stats, line 68: read the user's row of the module
UusReadModule(u, module_id, is_correct) ==
    /\ uus.pc = "idle"
    /\ uus' = [NoStatsCall EXCEPT !.pc = "write_module", !.user = u, !.is_correct = is_correct,
                                  !.mrow = module_stats[<<u, module_id>>]]
    /\ UNCHANGED <<user_stats, module_stats, goc>>
    /\ StatsFrame

\* update_user_stats, lines 70-92: update the row that was read, or insert
\* the first row of the module
UusWriteModule(module_id) ==
    /\ uus.pc = "write_module"
    /\ LET k == <<uus.user, module_id>>
           current == uus.mrow
       IN
       IF current.present THEN
           /\ module_stats' = [module_stats EXCEPT ![k] =
                 [present |-> TRUE,
                  number_answered |-> current.number_answered + 1,
                  number_correct |-> current.number_correct + Credit(uus.is_correct),
                  current_streak |-> IF uus.is_correct THEN current.current_streak + 1 ELSE 0]]
           /\ uus' = [uus EXCEPT !.pc = "read_user"]
       ELSE IF UniqueViolation(IF module_stats[k].present THEN 1 ELSE 0) THEN
           \* line 109: the exception is raised again
           /\ uus' = [uus EXCEPT !.pc = "raised"]
           /\ UNCHANGED module_stats
       ELSE
           /\ module_stats' = [module_stats EXCEPT ![k] =
                 [present |-> TRUE,
                  number_answered |-> 1,
                  number_correct |-> Credit(uus.is_correct),
                  current_streak |-> IF uus.is_correct THEN 1 ELSE 0]]
           /\ uus' = [uus EXCEPT !.pc = "read_user"]
    /\ UNCHANGED <<user_stats, goc>>
    /\ StatsFrame

\* update_user_stats, lines 95-96: read the user's row; without a row
\* nothing is written
UusReadUser ==
    /\ uus.pc = "read_user"
    /\ uus' = IF user_stats[uus.user].present
              THEN [uus EXCEPT !.pc = "write_user", !.urow = user_stats[uus.user]]
              ELSE [uus EXCEPT !.pc = "done"]
    /\ UNCHANGED <<user_stats, module_stats, goc>>
    /\ StatsFrame

\* variant: the correct counter is incremented in the store, the total is
\* written from the row that was read
UusWriteUser_mixed ==
    /\ uus.pc = "write_user"
    /\ LET current == uus.urow IN
       user_stats' = [user_stats EXCEPT ![uus.user] =
             [present |-> TRUE,
              correct_answers |-> user_stats[uus.user].correct_answers + Credit(uus.is_correct),
              total_answers |-> current.total_answers + 1,
              current_streak |-> IF uus.is_correct THEN current.current_streak + 1 ELSE 0]]
    /\ uus' = [uus EXCEPT !.pc = "done"]
    /\ UNCHANGED <<module_stats, goc>>
    /\ StatsFrame

\* update_user_stats, lines 97-107: write the totals computed from the row
\* that was read
UusWriteUser ==
    /\ uus.pc = "write_user"
    /\ LET current == uus.urow IN
       user_stats' = [user_stats EXCEPT ![uus.user] =
             [present |-> TRUE,
              correct_answers |-> current.correct_answers + Credit(uus.is_correct),
              total_answers |-> current.total_answers + 1,
              current_streak |-> IF uus.is_correct THEN current.current_streak + 1 ELSE 0]]
    /\ uus' = [uus EXCEPT !.pc = "done"]
    /\ UNCHANGED <<module_stats, goc>>
    /\ StatsFrame

\* get_or_create_user_stats, lines 32-34: look the user up
GocRead(u) ==
    /\ goc.pc = "idle"
    /\ goc' = [NoStatsCall EXCEPT !.user = u,
                                  !.pc = IF user_stats[u].present THEN "done" ELSE "insert_user"]
    /\ UNCHANGED <<user_stats, module_stats, uus>>
    /\ StatsFrame

\* get_or_create_user_stats, lines 36-43: insert the row of a new user
GocInsertUser ==
    /\ goc.pc = "insert_user"
    /\ IF UniqueViolation(IF user_stats[goc.user].present THEN 1 ELSE 0) THEN
           /\ goc' = [goc EXCEPT !.pc = "raised"]
           /\ UNCHANGED user_stats
       ELSE
           /\ user_stats' = [user_stats EXCEPT ![goc.user] =
                 [present |-> TRUE, correct_answers |-> 0, total_answers |-> 0, current_streak |-> 0]]
           /\ goc' = [goc EXCEPT !.pc = "insert_modules"]
    /\ UNCHANGED <<module_stats, uus>>
    /\ StatsFrame

\* get_or_create_user_stats, lines 46-56: insert a row for every module
\* (Modules has one member)
GocInsertModules ==
    /\ goc.pc = "insert_modules"
    /\ \E module_id \in Modules :
        LET k == <<goc.user, module_id>> IN
        IF UniqueViolation(IF module_stats[k].present THEN 1 ELSE 0) THEN
            /\ goc' = [goc EXCEPT !.pc = "raised"]
            /\ UNCHANGED module_stats
        ELSE
            /\ module_stats' = [module_stats EXCEPT ![k] =
                  [present |-> TRUE, number_answered |-> 0, number_correct |-> 0, current_streak |-> 0]]
            /\ goc' = [goc EXCEPT !.pc = "done"]
    /\ UNCHANGED <<user_stats, uus>>
    /\ StatsFrame

StatsNext ==
    \/ CheckToken
    \/ \E e \in Received : ReadUserStats(e)
    \/ \E e \in Received : ReadModuleStats(e)
    \/ \E e \in Received : WriteModuleStats(e)
    \/ \E e \in Received : InsertUsedToken(e)
    \/ \E e \in Received : WriteUserStats(e)
    \/ \E u \in Dealers : \E module_id \in Modules : \E is_correct \in BOOLEAN :
          UusReadModule(u, module_id, is_correct)
    \/ \E module_id \in Modules : UusWriteModule(module_id)
    \/ UusReadUser
    \/ UusWriteUser
    \/ \E u \in Dealers : GocRead(u)
    \/ GocInsertUser
    \/ GocInsertModules

\* one question was dealt to user 1; no store call fails
StatsInit ==
    /\ TkInit
    /\ tk_q = <<97>> /\ tk_u = 1 /\ tk_t = MaxTime
    /\ issued = { generate_signed_token(<<97>>, 1, MaxTime) }
    /\ used_tokens = EmptyBag
    /\ user_stats = [u \in SessionUsers |-> NoUserRow]
    /\ module_stats = [k \in SessionUsers \X Modules |-> NoModuleRow]
    /\ req = EmptyBag
    /\ failures = MaxFailures
    /\ DdIdle /\ DlIdle /\ ScIdle /\ TvIdle
    /\ StIdle /\ IgIdle

SpecStats == StatsInit /\ [][StatsNext]_vars

\* C29: in every reachable state every user_stats row has
\* correct_answers <= total_answers and every module_stats row has
\* number_correct <= number_answered
C29_CorrectAtMostTotal ==
    /\ \A u \in SessionUsers : user_stats[u].correct_answers <= user_stats[u].total_answers
    /\ \A k \in SessionUsers \X Modules :
          module_stats[k].number_correct <= module_stats[k].number_answered

\* all three writers have written, an answer was wrong, and one write was lost
C29_Witness ==
    /\ uus.pc = "done" /\ goc.pc = "done"
    /\ \E e \in Received : e.resp = RespIncorrect
    /\ \E e \in Received : e.resp = RespCorrect
    /\ user_stats[1].correct_answers < user_stats[1].total_answers
    /\ user_stats[1].total_answers < 3

\* ---------------------------------------------------------------------
\* SpecIngest: ingest_flashcards processing the entries of a batch
\* ---------------------------------------------------------------------
MaxEntries == 2        \* entries of a batch

\* what an entry of the payload is to the handler: whether it has its
\* required fields, whether a duplicate of it is found, and its distractors
Entry(valid, duplicate, distractors) ==
    [valid |-> valid, duplicate |-> duplicate, distractors |-> distractors]

\* no list, "d", " " before "d", "d" before "", and six texts
DistractorLists ==
    { <<>>, << <<100>> >>, << <<32>>, <<100>> >>, << <<100>>, <<>> >>,
      << <<100>>, <<101>>, <<102>>, <<103>>, <<104>>, <<105>> >> }

EntryKinds ==
    { Entry(FALSE, FALSE, <<>>), Entry(TRUE, TRUE, << <<100>> >>) }
        \cup { Entry(TRUE, FALSE, ds) : ds \in DistractorLists }

Batches == UNION { [1..n -> EntryKinds] : n \in 1..MaxEntries }

\* a store call of the request may raise while the failure budget lasts
IgMayFail == ig_failures < MaxFailures

\* the entry is reported under `list` and the loop moves to the next entry
IgReport(list) ==
    /\ ig_results' = [ig_results EXCEPT ![list] = @ \cup {ig_index}]
    /\ ig_index' = ig_index + 1
    /\ ig_k' = 0
    /\ ig_pc' = "entry"

\* lines 331-334 of the except branch: the entry is reported under errors
IgRaise ==
    /\ IgMayFail
    /\ ig_failures' = ig_failures + 1
    /\ IgReport("errors")

IgFrame == UNCHANGED <<svcVars, tkVars, ddVars, dlVars, scVars, tvVars, stVars>>

\* the payload passed the checks of lines 152-173
IgInit ==
    /\ ig_pc = "entry"
    /\ ig_batch \in Batches
    /\ ig_index = 1
    /\ ig_k = 0
    /\ ig_flashcards = {}
    /\ ig_distractors = {}
    /\ ig_results = NoResults
    /\ ig_failures = 0
    /\ ig_status = 0

\* lines 219-283: validation, the look-ups for duplicates, and the report of
\* a duplicate
IgEntry ==
    /\ ig_pc = "entry"
    /\ ig_index <= Len(ig_batch)
    /\ LET entry == ig_batch[ig_index] IN
       IF ~entry.valid THEN
           \* line 232: ValueError, caught at line 328
           /\ IgReport("errors")
           /\ UNCHANGED ig_failures
       ELSE
           \/ IgRaise
           \/ /\ entry.duplicate
              /\ IgReport("duplicates")
              /\ UNCHANGED ig_failures
           \/ /\ ~entry.duplicate
              /\ ig_pc' = "insert"
              /\ UNCHANGED <<ig_index, ig_k, ig_results, ig_failures>>
    /\ UNCHANGED <<ig_batch, ig_flashcards, ig_distractors, ig_status>>
    /\ IgFrame

\* lines 285-301: the row of submitted_flashcards
IgInsertFlashcard ==
    /\ ig_pc = "insert"
    /\ \/ /\ IgRaise
          /\ UNCHANGED ig_flashcards
       \/ /\ ig_flashcards' = ig_flashcards \cup {ig_index}
          /\ ig_pc' = "distractors"
          /\ ig_k' = 1
          /\ UNCHANGED <<ig_index, ig_results, ig_failures>>
    /\ UNCHANGED <<ig_batch, ig_distractors, ig_status>>
    /\ IgFrame

\* distractors[:Config.NUMBER_OF_DISTRACTORS]
Considered(entry) == SubSeq(entry.distractors, 1, Min(NumberOfDistractors, Len(entry.distractors)))

\* lines 307-316: one pass of the loop over the distractors
IgInsertDistractor ==
    /\ ig_pc = "distractors"
    /\ ig_k <= Len(Considered(ig_batch[ig_index]))
    /\ LET text == Considered(ig_batch[ig_index])[ig_k] IN
       IF Blank(text) THEN
           \* line 309: continue
           /\ ig_k' = ig_k + 1
           /\ UNCHANGED <<ig_pc, ig_index, ig_results, ig_failures, ig_distractors>>
       ELSE
           \/ /\ IgRaise
              /\ UNCHANGED ig_distractors
           \/ /\ ig_distractors' = ig_distractors \cup { <<ig_index, ig_k>> }
              /\ ig_k' = ig_k + 1
              /\ UNCHANGED <<ig_pc, ig_index, ig_results, ig_failures>>
    /\ UNCHANGED <<ig_batch, ig_flashcards, ig_status>>
    /\ IgFrame

\* lines 318-324: the entry is reported under accepted
IgAccept ==
    /\ ig_pc = "distractors"
    /\ ig_k > Len(Considered(ig_batch[ig_index]))
    /\ IgReport("accepted")
    /\ UNCHANGED <<ig_batch, ig_flashcards, ig_distractors, ig_failures, ig_status>>
    /\ IgFrame

\* lines 333-334: the response
IgRespond ==
    /\ ig_pc = "entry"
    /\ ig_index > Len(ig_batch)
    /\ ig_pc' = "responded"
    /\ ig_status' = IF ig_results.errors # {} \/ ig_results.duplicates # {} THEN 207 ELSE 201
    /\ UNCHANGED <<ig_batch, ig_index, ig_k, ig_flashcards, ig_distractors, ig_results, ig_failures>>
    /\ IgFrame

IgNext ==
    \/ IgEntry
    \/ IgInsertFlashcard
    \/ IgInsertDistractor
    \/ IgAccept
    \/ IgRespond

IngestInit ==
    /\ IgInit
    /\ TkInit /\ tk_q = <<97>> /\ tk_u = 1 /\ tk_t = MaxTime
    /\ SvcInit
    /\ DdIdle /\ DlIdle /\ ScIdle /\ TvIdle /\ StIdle

SpecIngest == IngestInit /\ [][IgNext]_vars

\* the rows of submitted_distractors that belong to entry i
DistractorRows(i) == { r \in ig_distractors : r[1] = i }

\* the rows the handler inserts for the distractors of entry i
ExpectedRows(i) ==
    { <<i, k>> : k \in { j \in 1..Len(Considered(ig_batch[i])) : ~Blank(Considered(ig_batch[i])[j]) } }

NothingInserted(i) == i \notin ig_flashcards /\ DistractorRows(i) = {}
AllInserted(i) == i \in ig_flashcards /\ DistractorRows(i) = ExpectedRows(i)

\* an entry reported under accepted has its row and all its distractor rows
AcceptedComplete == \A i \in ig_results.accepted : AllInserted(i)

\* C30: an entry reported under errors has left no row; every entry that
\* was reported has either all its rows and is under accepted, or no row
C30_ErrorsLeaveNothing ==
    /\ \A i \in ig_results.errors : NothingInserted(i)
    /\ \A i \in ig_results.accepted \cup ig_results.duplicates \cup ig_results.errors :
          \/ AllInserted(i) /\ i \in ig_results.accepted
          \/ NothingInserted(i)
====
